---- MODULE Spec2Model ----
(***************************************************************************)
(* A model of life-restart-core: the PropertyState, the condition DSL and  *)
(* its parse cache, event selection and processing, talent processing and  *)
(* replacement, the achievement checker and the simulation engine.         *)
(*                                                                         *)
(* Strings of the condition DSL are sequences of one-character strings,    *)
(* so that tokenising and parsing are computed, character by character,    *)
(* as the parser computes them.  Option<T> is None or [some |-> v].        *)
(***************************************************************************)
EXTENDS Integers, Sequences, FiniteSets, TLC

VARIABLES
    state,      \* the PropertyState under change / of the running simulation
    seen,       \* history: the values every tracked scalar has taken since new
    calls,      \* number of calls made so far (PropSpec and the function specs)
    fin,        \* the arguments of the function under check
    fout,       \* what the function returned
    cache,      \* CONDITION_CACHE: condition string -> AST
    lock,       \* the RwLock of the cache: readers and writer holding it
    thr,        \* the threads calling into the cache
    cfg,        \* the engine: talents, events, ages, achievements, judge_config
    inp,        \* simulate's arguments: talent_ids, properties, achieved_list
    pc,         \* where simulate is
    trigger_counts,
    current_achieved,
    all_new_achievements,
    trajectory,
    new_talents,    \* apply_replacements: the accumulated talent list
    replacements,   \* apply_replacements: the ReplacementResults
    repl,       \* apply_replacements: position i and the replace_talent call in progress
    pending,    \* do_talents: the trigger results whose effect is still to apply
    cont,       \* do_talents: who called it ("start" or "year")
    content,    \* simulate_year: the year's content records
    year_age,   \* simulate_year: the age captured after the AGE change
    chain,      \* process_event_chain: the event to process and the call depth
    result,     \* what simulate returned
    log,        \* history: replace_talent draws and results, talent passes, events, sweeps
    fired       \* history: the trigger results emitted per talent id

propVars == <<state, seen, calls>>

fnVars == <<fin, fout>>

cacheVars == <<lock, thr>>

simVars == <<cfg, inp, pc, trigger_counts, current_achieved, all_new_achievements,
             trajectory, new_talents, replacements, repl, pending, cont, content,
             year_age, chain, result, log, fired>>

vars == <<state, seen, calls, fin, fout, cache, lock, thr, cfg, inp, pc,
          trigger_counts, current_achieved, all_new_achievements, trajectory,
          new_talents, replacements, repl, pending, cont, content, year_age,
          chain, result, log, fired>>

\* the variables a specification does not use stay as they start
PropIdle == state = <<>> /\ seen = <<>> /\ calls = 0

FnIdle == fin = <<>> /\ fout = <<>>

CacheIdle == lock = <<>> /\ thr = <<>>

SimIdle ==
    /\ cfg = <<>> /\ inp = <<>> /\ pc = "" /\ trigger_counts = <<>>
    /\ current_achieved = <<>> /\ all_new_achievements = <<>> /\ trajectory = <<>>
    /\ new_talents = <<>> /\ replacements = <<>> /\ repl = <<>> /\ pending = <<>>
    /\ cont = "" /\ content = <<>> /\ year_age = 0 /\ chain = <<>> /\ result = <<>>
    /\ log = <<>> /\ fired = <<>>

(***************************************************************************)
(* Bounds of the model.                                                    *)
(***************************************************************************)
MaxCalls == 4

(***************************************************************************)
(* Generic helpers.                                                        *)
(***************************************************************************)
None == [none |-> TRUE]

Some(v) == [some |-> v]

IsSome(o) == "some" \in DOMAIN o

Min(a, b) == IF a <= b THEN a ELSE b

Max(a, b) == IF a >= b THEN a ELSE b

SetMin(S) == CHOOSE x \in S : \A y \in S : x <= y

SetMax(S) == CHOOSE x \in S : \A y \in S : x >= y

Range(s) == {s[i] : i \in 1..Len(s)}

Contains(s, x) == \E i \in 1..Len(s) : s[i] = x

\* the one element of a singleton: The({e(x) : x \in {v}}) is e with x bound
\* to the value of v, computed once
The(S) == CHOOSE x \in S : TRUE

NoDup(s) == \A i, j \in 1..Len(s) : s[i] = s[j] => i = j

(***************************************************************************)
(* PropertyState (property/state.rs).                                      *)
(***************************************************************************)
\* a list of random properties that holds LIF too
RDM_PROPERTIES_with_lif == <<"CHR", "INT", "STR", "MNY", "SPR", "LIF">>

\* the properties change("RDM", _) chooses from
RDM_PROPERTIES == <<"CHR", "INT", "STR", "MNY", "SPR">>

\* the tracked scalars: field, min field, max field
Tracked == {"age", "chr", "int", "str_", "mny", "spr"}

LField == [age |-> "lage", chr |-> "lchr", int |-> "lint", str_ |-> "lstr",
           mny |-> "lmny", spr |-> "lspr"]

HField == [age |-> "hage", chr |-> "hchr", int |-> "hint", str_ |-> "hstr",
           mny |-> "hmny", spr |-> "hspr"]

\* the field a property name of change selects
ScalarField == [AGE |-> "age", CHR |-> "chr", INT |-> "int", STR |-> "str_",
                MNY |-> "mny", SPR |-> "spr"]

\* init_min_max that forgets the initial age
init_min_max_zero_age(s) ==
    [s EXCEPT !.lage = 0, !.lchr = s.chr, !.lint = s.int,
              !.lstr = s.str_, !.lmny = s.mny, !.lspr = s.spr,
              !.hage = 0, !.hchr = s.chr, !.hint = s.int,
              !.hstr = s.str_, !.hmny = s.mny, !.hspr = s.spr]

init_min_max(s) ==
    [s EXCEPT !.lage = s.age, !.lchr = s.chr, !.lint = s.int,
              !.lstr = s.str_, !.lmny = s.mny, !.lspr = s.spr,
              !.hage = s.age, !.hchr = s.chr, !.hint = s.int,
              !.hstr = s.str_, !.hmny = s.mny, !.hspr = s.spr]

new(chr, int, str_, mny, spr, lif) ==
    init_min_max(
        [age |-> -1, chr |-> chr, int |-> int, str_ |-> str_, mny |-> mny,
         spr |-> spr, lif |-> lif, tlt |-> <<>>, evt |-> <<>>,
         lage |-> 2147483647, lchr |-> 2147483647, lint |-> 2147483647,
         lstr |-> 2147483647, lmny |-> 2147483647, lspr |-> 2147483647,
         hage |-> -2147483647 - 1, hchr |-> -2147483647 - 1,
         hint |-> -2147483647 - 1, hstr |-> -2147483647 - 1,
         hmny |-> -2147483647 - 1, hspr |-> -2147483647 - 1])

\* update_*_min_max that tracks the maximum only
update_min_max_no_min(s, f) ==
    [s EXCEPT ![HField[f]] = Max(s[HField[f]], s[f])]

\* update_age_min_max .. update_spr_min_max, by field
update_min_max(s, f) ==
    [s EXCEPT ![LField[f]] = Min(s[LField[f]], s[f]),
              ![HField[f]] = Max(s[HField[f]], s[f])]

\* change that appends to TLT / EVT without looking for the id
change_det_push_always(s, prop, delta) ==
    CASE prop \in DOMAIN ScalarField ->
            LET f == ScalarField[prop]
            IN  update_min_max([s EXCEPT ![f] = s[f] + delta], f)
      [] prop = "LIF" -> [s EXCEPT !.lif = s.lif + delta]
      [] prop = "TLT" -> [s EXCEPT !.tlt = Append(s.tlt, delta)]
      [] prop = "EVT" -> [s EXCEPT !.evt = Append(s.evt, delta)]
      [] OTHER -> s

\* change, for every property but RDM (a deterministic function)
change_det(s, prop, delta) ==
    CASE prop \in DOMAIN ScalarField ->
            LET f == ScalarField[prop]
            IN  update_min_max([s EXCEPT ![f] = s[f] + delta], f)
      [] prop = "LIF" -> [s EXCEPT !.lif = s.lif + delta]
      [] prop = "TLT" ->
            IF ~Contains(s.tlt, delta)
            THEN [s EXCEPT !.tlt = Append(s.tlt, delta)] ELSE s
      [] prop = "EVT" ->
            IF ~Contains(s.evt, delta)
            THEN [s EXCEPT !.evt = Append(s.evt, delta)] ELSE s
      [] OTHER -> s

\* change: the set of states one call can produce (RDM chooses at random)
change(s, prop, delta) ==
    IF prop = "RDM"
    THEN {change_det(s, RDM_PROPERTIES[i], delta) : i \in 1..Len(RDM_PROPERTIES)}
    ELSE {change_det(s, prop, delta)}

\* an is_end that lets a life of 0 go on
is_end_below_zero(s) == s.lif < 0

is_end(s) == s.lif < 1

\* i32 division truncates toward zero
TruncDiv(a, b) == IF a >= 0 THEN a \div b ELSE -((-a) \div b)

\* calculate_summary_score with a division that rounds down
calculate_summary_score_floor(s) ==
    LET hchr == Max(s.hchr, s.chr)
        hint == Max(s.hint, s.int)
        hstr == Max(s.hstr, s.str_)
        hmny == Max(s.hmny, s.mny)
        hspr == Max(s.hspr, s.spr)
        hage == Max(s.hage, s.age)
    IN  (hchr + hint + hstr + hmny + hspr) * 2 + (hage \div 2)

calculate_summary_score(s) ==
    LET hchr == Max(s.hchr, s.chr)
        hint == Max(s.hint, s.int)
        hstr == Max(s.hstr, s.str_)
        hmny == Max(s.hmny, s.mny)
        hspr == Max(s.hspr, s.spr)
        hage == Max(s.hage, s.age)
    IN  (hchr + hint + hstr + hmny + hspr) * 2 + TruncDiv(hage, 2)

get_properties_dict(s) ==
    [AGE |-> s.age, CHR |-> s.chr, INT |-> s.int, STR |-> s.str_,
     MNY |-> s.mny, SPR |-> s.spr]

(***************************************************************************)
(* Results (error.rs): Ok(v) or the InvalidCondition error.                *)
(***************************************************************************)
Ok(v) == [ok |-> TRUE, v |-> v]

Err == [ok |-> FALSE, err |-> "InvalidCondition"]

unwrap_or(r, d) == IF r.ok THEN r.v ELSE d

(***************************************************************************)
(* Condition parser (condition/parser.rs).                                 *)
(***************************************************************************)
Digits == <<"0", "1", "2", "3", "4", "5", "6", "7", "8", "9">>

IsDigit(c) == \E i \in 1..10 : Digits[i] = c

DigitVal(c) == (CHOOSE i \in 1..10 : Digits[i] = c) - 1

\* str::trim, for the blank the tokeniser knows
RECURSIVE TrimStart(_)
TrimStart(str) ==
    The({IF s # <<>> /\ Head(s) = " " THEN TrimStart(Tail(s)) ELSE s : s \in {str}})

RECURSIVE TrimEnd(_)
TrimEnd(str) ==
    The({IF s # <<>> /\ s[Len(s)] = " " THEN TrimEnd(SubSeq(s, 1, Len(s) - 1)) ELSE s :
            s \in {str}})

Trim(s) == TrimEnd(TrimStart(s))

TokCondition(s) == [t |-> "Condition", s |-> s]

TokAnd == [t |-> "And", s |-> <<>>]

TokOr == [t |-> "Or", s |-> <<>>]

TokOpenParen == [t |-> "OpenParen", s |-> <<>>]

TokCloseParen == [t |-> "CloseParen", s |-> <<>>]

\* the tokeniser's loop from character i on: tokens so far, the atom being
\* accumulated, and the parenthesis depth
RECURSIVE tokenize_from(_, _, _, _, _)
tokenize_from(condition, i, tokens, current, paren_depth) ==
    IF i > Len(condition)
    THEN LET final == IF current # <<>>
                      THEN Append(tokens, TokCondition(current)) ELSE tokens
         IN  IF paren_depth # 0 THEN Err ELSE Ok(final)
    ELSE LET c == condition[i]
             flushed == IF current # <<>>
                        THEN Append(tokens, TokCondition(current)) ELSE tokens
         IN  CASE c = " " -> tokenize_from(condition, i + 1, flushed, <<>>, paren_depth)
               [] c = "(" -> tokenize_from(condition, i + 1,
                                 Append(flushed, TokOpenParen), <<>>, paren_depth + 1)
               [] c = ")" -> tokenize_from(condition, i + 1,
                                 Append(flushed, TokCloseParen), <<>>, paren_depth - 1)
               [] c = "&" -> tokenize_from(condition, i + 1,
                                 Append(flushed, TokAnd), <<>>, paren_depth)
               [] c = "|" -> tokenize_from(condition, i + 1,
                                 Append(flushed, TokOr), <<>>, paren_depth)
               [] OTHER -> tokenize_from(condition, i + 1, tokens,
                                 Append(current, c), paren_depth)

tokenize(condition) == tokenize_from(condition, 1, <<>>, <<>>, 0)

\* str::parse::<i32>: an optional sign and at least one digit (the strings of
\* the model have at most nine digits, so the value fits)
RECURSIVE DigitsValue(_, _)
DigitsValue(s, acc) ==
    IF s = <<>> THEN acc ELSE DigitsValue(Tail(s), acc * 10 + DigitVal(Head(s)))

AllDigits(s) == s # <<>> /\ \A i \in 1..Len(s) : IsDigit(s[i])

parse_i32(str) ==
    The({LET signed == s # <<>> /\ Head(s) \in {"-", "+"}
             body == IF signed THEN Tail(s) ELSE s
         IN  IF AllDigits(body) /\ Len(body) <= 9
             THEN Ok(IF signed /\ Head(s) = "-"
                     THEN -DigitsValue(body, 0) ELSE DigitsValue(body, 0))
             ELSE Err :
            s \in {str}})

RECURSIVE Pow10(_)
Pow10(n) == IF n = 0 THEN 1 ELSE 10 * Pow10(n - 1)

\* str::parse::<f64>, for decimal literals [sign] digits [. digits]; the value
\* is the fraction num / den
parse_f64(str) ==
    The({LET signed == s # <<>> /\ Head(s) \in {"-", "+"}
             body == IF signed THEN Tail(s) ELSE s
             dots == {i \in 1..Len(body) : body[i] = "."}
             sgn == IF signed /\ Head(s) = "-" THEN -1 ELSE 1
         IN  IF Cardinality(dots) = 0
             THEN IF AllDigits(body) /\ Len(body) <= 9
                  THEN Ok([num |-> sgn * DigitsValue(body, 0), den |-> 1]) ELSE Err
             ELSE IF Cardinality(dots) = 1
             THEN LET d == CHOOSE i \in dots : TRUE
                      ip == SubSeq(body, 1, d - 1)
                      fp == SubSeq(body, d + 1, Len(body))
                  IN  IF (ip # <<>> \/ fp # <<>>)
                         /\ (\A i \in 1..Len(ip) : IsDigit(ip[i]))
                         /\ (\A i \in 1..Len(fp) : IsDigit(fp[i]))
                         /\ Len(ip) + Len(fp) <= 9
                      THEN Ok([num |-> sgn * DigitsValue(ip \o fp, 0),
                               den |-> Pow10(Len(fp))])
                      ELSE Err
             ELSE Err :
            s \in {str}})

\* str::split(','): the pieces between commas (one piece for no comma)
RECURSIVE split_comma(_, _, _)
split_comma(s, cur, parts) ==
    IF s = <<>> THEN Append(parts, cur)
    ELSE IF Head(s) = "," THEN split_comma(Tail(s), <<>>, Append(parts, cur))
    ELSE split_comma(Tail(s), Append(cur, Head(s)), parts)

ValInteger(i) == [kind |-> "Integer", i |-> i]

ValFloat(f) == [kind |-> "Float", f |-> f]

ValArray(a) == [kind |-> "Array", arr |-> a]

ValString(s) == [kind |-> "String", str |-> s]

parse_value(value_str0) ==
    The({IF value_str # <<>> /\ Head(value_str) = "[" /\ value_str[Len(value_str)] = "]"
            /\ Len(value_str) >= 2
         THEN The({IF \A i \in 1..Len(values) : values[i].ok
                   THEN Ok(ValArray([i \in 1..Len(values) |-> values[i].v]))
                   ELSE Err :
                      values \in {[i \in 1..Len(parts) |-> parse_i32(Trim(parts[i]))] :
                                     parts \in {split_comma(SubSeq(value_str, 2,
                                                                   Len(value_str) - 1),
                                                            <<>>, <<>>)}}})
         ELSE The({IF as_i32.ok THEN Ok(ValInteger(as_i32.v))
                   ELSE The({IF as_f64.ok THEN Ok(ValFloat(as_f64.v))
                             ELSE Ok(ValString(value_str)) :
                                as_f64 \in {parse_f64(value_str)}}) :
                      as_i32 \in {parse_i32(value_str)}}) :
            value_str \in {Trim(value_str0)}})

\* the operators in the order parse_single_condition tries them
Operators ==
    << [s |-> <<">", "=">>, op |-> "GreaterEqual"],
       [s |-> <<"<", "=">>, op |-> "LessEqual"],
       [s |-> <<"!", "=">>, op |-> "NotEqual"],
       [s |-> <<">">>, op |-> "Greater"],
       [s |-> <<"<">>, op |-> "Less"],
       [s |-> <<"=">>, op |-> "Equal"],
       [s |-> <<"?">>, op |-> "IncludesAny"],
       [s |-> <<"!">>, op |-> "ExcludesAll"] >>

\* str::find: the positions (1-based) at which pat occurs in s
Occurrences(str, pattern) ==
    UNION {{p \in 1..(Len(s) - Len(pat) + 1) : SubSeq(s, p, p + Len(pat) - 1) = pat} :
              s \in {str}, pat \in {pattern}}

AstSingle(property, operator, value) ==
    [node |-> "Single", property |-> property, operator |-> operator, value |-> value]

AstAnd(l, r) == [node |-> "And", left |-> l, right |-> r]

AstOr(l, r) == [node |-> "Or", left |-> l, right |-> r]

parse_single_condition(str) ==
    The({IF found = {} THEN Err
         ELSE The({The({IF value.ok
                        THEN Ok(AstSingle(Trim(SubSeq(condition, 1, pos - 1)),
                                          Operators[k].op, value.v))
                        ELSE Err :
                           value \in {parse_value(SubSeq(condition,
                                                         pos + Len(Operators[k].s),
                                                         Len(condition)))}}) :
                     k \in {SetMin(found)},
                     pos \in {SetMin(Occurrences(condition, Operators[SetMin(found)].s))}}) :
            condition \in {str},
            found \in {{k \in 1..Len(Operators) : Occurrences(str, Operators[k].s) # {}}}})

\* the parenthesis depth before token i, as the scan of parse_tokens counts it
RECURSIVE DepthBefore(_, _)
DepthBefore(tokens, i) ==
    IF i <= 1 THEN 0
    ELSE DepthBefore(tokens, i - 1)
         + (CASE tokens[i - 1].t = "OpenParen" -> 1
              [] tokens[i - 1].t = "CloseParen" -> -1
              [] OTHER -> 0)

\* an or_pos that yields to an outermost And
or_pos_after_and(tokens) ==
    LET at == {i \in 1..Len(tokens) : tokens[i].t = "Or" /\ DepthBefore(tokens, i) = 0}
    IN  IF at = {} \/ \E i \in 1..Len(tokens) :
                        tokens[i].t = "And" /\ DepthBefore(tokens, i) = 0
        THEN None ELSE Some(SetMax(at))

\* or_pos of parse_tokens: every outermost Or overwrites it, so the last one
or_pos(tokens) ==
    LET at == {i \in 1..Len(tokens) : tokens[i].t = "Or" /\ DepthBefore(tokens, i) = 0}
    IN  IF at = {} THEN None ELSE Some(SetMax(at))

\* and_pos of parse_tokens: every outermost And seen while or_pos is unset
\* overwrites it
and_pos(tokens) ==
    LET at == {i \in 1..Len(tokens) :
                  /\ tokens[i].t = "And" /\ DepthBefore(tokens, i) = 0
                  /\ \A j \in 1..(i - 1) :
                        ~(tokens[j].t = "Or" /\ DepthBefore(tokens, j) = 0)}
    IN  IF at = {} THEN None ELSE Some(SetMax(at))

\* the two sides of a binary node split at pos
RECURSIVE parse_tokens(_)
parse_binary(tokens, pos, Node(_, _)) ==
    The({IF ~left.ok THEN Err
         ELSE The({IF ~right.ok THEN Err ELSE Ok(Node(left.v, right.v)) :
                      right \in {parse_tokens(SubSeq(tokens, pos + 1, Len(tokens)))}}) :
            left \in {parse_tokens(SubSeq(tokens, 1, pos - 1))}})

parse_tokens(toks) ==
    The({IF tokens = <<>> THEN Err
         ELSE IF IsSome(op) THEN parse_binary(tokens, op.some, AstOr)
         ELSE IF IsSome(ap) THEN parse_binary(tokens, ap.some, AstAnd)
         ELSE IF Len(tokens) >= 2 /\ tokens[1].t = "OpenParen"
                 /\ tokens[Len(tokens)].t = "CloseParen"
         THEN parse_tokens(SubSeq(tokens, 2, Len(tokens) - 1))
         ELSE IF Len(tokens) = 1 /\ tokens[1].t = "Condition"
         THEN parse_single_condition(tokens[1].s)
         ELSE Err :
            tokens \in {toks}, op \in {or_pos(toks)}, ap \in {and_pos(toks)}})

parse(condition0) ==
    The({IF condition = <<>> THEN Err
         ELSE The({IF ~tokens.ok THEN Err ELSE parse_tokens(tokens.v) :
                      tokens \in {tokenize(condition)}}) :
            condition \in {Trim(condition0)}})


(***************************************************************************)
(* Condition evaluator (condition/evaluator.rs).                           *)
(***************************************************************************)
PvInteger(i) == [kind |-> "Integer", i |-> i]

PvList(l) == [kind |-> "List", list |-> l]

\* PropertyState::get_value: the byte-string match on the property name
get_value(s, prop) ==
    CASE prop = <<"A", "G", "E">> -> PvInteger(s.age)
      [] prop = <<"C", "H", "R">> -> PvInteger(s.chr)
      [] prop = <<"I", "N", "T">> -> PvInteger(s.int)
      [] prop = <<"S", "T", "R">> -> PvInteger(s.str_)
      [] prop = <<"M", "N", "Y">> -> PvInteger(s.mny)
      [] prop = <<"S", "P", "R">> -> PvInteger(s.spr)
      [] prop = <<"L", "I", "F">> -> PvInteger(s.lif)
      [] prop = <<"T", "L", "T">> -> PvList(s.tlt)
      [] prop = <<"E", "V", "T">> -> PvList(s.evt)
      [] prop = <<"L", "A", "G", "E">> -> PvInteger(Min(s.lage, s.age))
      [] prop = <<"L", "C", "H", "R">> -> PvInteger(Min(s.lchr, s.chr))
      [] prop = <<"L", "I", "N", "T">> -> PvInteger(Min(s.lint, s.int))
      [] prop = <<"L", "S", "T", "R">> -> PvInteger(Min(s.lstr, s.str_))
      [] prop = <<"L", "M", "N", "Y">> -> PvInteger(Min(s.lmny, s.mny))
      [] prop = <<"L", "S", "P", "R">> -> PvInteger(Min(s.lspr, s.spr))
      [] prop = <<"H", "A", "G", "E">> -> PvInteger(Max(s.hage, s.age))
      [] prop = <<"H", "C", "H", "R">> -> PvInteger(Max(s.hchr, s.chr))
      [] prop = <<"H", "I", "N", "T">> -> PvInteger(Max(s.hint, s.int))
      [] prop = <<"H", "S", "T", "R">> -> PvInteger(Max(s.hstr, s.str_))
      [] prop = <<"H", "M", "N", "Y">> -> PvInteger(Max(s.hmny, s.mny))
      [] prop = <<"H", "S", "P", "R">> -> PvInteger(Max(s.hspr, s.spr))
      [] prop = <<"S", "U", "M">> -> PvInteger(calculate_summary_score(s))
      [] OTHER -> PvInteger(0)

\* a check_single whose unsupported combinations pass
check_single_default_true(cond, s) ==
    LET pv == get_value(s, cond.property)
        cv == cond.value
        op == cond.operator
    IN  CASE pv.kind = "Integer" /\ cv.kind = "Integer" /\ op = "Greater" -> pv.i > cv.i
          [] pv.kind = "Integer" /\ cv.kind = "Integer" /\ op = "Less" -> pv.i < cv.i
          [] pv.kind = "Integer" /\ cv.kind = "Integer" /\ op = "GreaterEqual" -> pv.i >= cv.i
          [] pv.kind = "Integer" /\ cv.kind = "Integer" /\ op = "LessEqual" -> pv.i <= cv.i
          [] pv.kind = "Integer" /\ cv.kind = "Integer" /\ op = "Equal" -> pv.i = cv.i
          [] pv.kind = "Integer" /\ cv.kind = "Integer" /\ op = "NotEqual" -> pv.i # cv.i
          \* pv as f64 against the literal num / den
          [] pv.kind = "Integer" /\ cv.kind = "Float" /\ op = "Greater" ->
                pv.i * cv.f.den > cv.f.num
          [] pv.kind = "Integer" /\ cv.kind = "Float" /\ op = "Less" ->
                pv.i * cv.f.den < cv.f.num
          [] pv.kind = "Integer" /\ cv.kind = "Float" /\ op = "GreaterEqual" ->
                pv.i * cv.f.den >= cv.f.num
          [] pv.kind = "Integer" /\ cv.kind = "Float" /\ op = "LessEqual" ->
                pv.i * cv.f.den <= cv.f.num
          [] pv.kind = "List" /\ cv.kind = "Integer" /\ op = "Equal" ->
                Contains(pv.list, cv.i)
          [] pv.kind = "List" /\ cv.kind = "Integer" /\ op = "NotEqual" ->
                ~Contains(pv.list, cv.i)
          [] pv.kind = "List" /\ cv.kind = "Array" /\ op = "IncludesAny" ->
                \E i \in 1..Len(pv.list) : Contains(cv.arr, pv.list[i])
          [] pv.kind = "Integer" /\ cv.kind = "Array" /\ op = "IncludesAny" ->
                Contains(cv.arr, pv.i)
          [] pv.kind = "List" /\ cv.kind = "Array" /\ op = "ExcludesAll" ->
                \A i \in 1..Len(pv.list) : ~Contains(cv.arr, pv.list[i])
          [] pv.kind = "Integer" /\ cv.kind = "Array" /\ op = "ExcludesAll" ->
                ~Contains(cv.arr, pv.i)
          [] OTHER -> TRUE

check_single(cond, s) ==
    LET pv == get_value(s, cond.property)
        cv == cond.value
        op == cond.operator
    IN  CASE pv.kind = "Integer" /\ cv.kind = "Integer" /\ op = "Greater" -> pv.i > cv.i
          [] pv.kind = "Integer" /\ cv.kind = "Integer" /\ op = "Less" -> pv.i < cv.i
          [] pv.kind = "Integer" /\ cv.kind = "Integer" /\ op = "GreaterEqual" -> pv.i >= cv.i
          [] pv.kind = "Integer" /\ cv.kind = "Integer" /\ op = "LessEqual" -> pv.i <= cv.i
          [] pv.kind = "Integer" /\ cv.kind = "Integer" /\ op = "Equal" -> pv.i = cv.i
          [] pv.kind = "Integer" /\ cv.kind = "Integer" /\ op = "NotEqual" -> pv.i # cv.i
          \* pv as f64 against the literal num / den
          [] pv.kind = "Integer" /\ cv.kind = "Float" /\ op = "Greater" ->
                pv.i * cv.f.den > cv.f.num
          [] pv.kind = "Integer" /\ cv.kind = "Float" /\ op = "Less" ->
                pv.i * cv.f.den < cv.f.num
          [] pv.kind = "Integer" /\ cv.kind = "Float" /\ op = "GreaterEqual" ->
                pv.i * cv.f.den >= cv.f.num
          [] pv.kind = "Integer" /\ cv.kind = "Float" /\ op = "LessEqual" ->
                pv.i * cv.f.den <= cv.f.num
          [] pv.kind = "List" /\ cv.kind = "Integer" /\ op = "Equal" ->
                Contains(pv.list, cv.i)
          [] pv.kind = "List" /\ cv.kind = "Integer" /\ op = "NotEqual" ->
                ~Contains(pv.list, cv.i)
          [] pv.kind = "List" /\ cv.kind = "Array" /\ op = "IncludesAny" ->
                \E i \in 1..Len(pv.list) : Contains(cv.arr, pv.list[i])
          [] pv.kind = "Integer" /\ cv.kind = "Array" /\ op = "IncludesAny" ->
                Contains(cv.arr, pv.i)
          [] pv.kind = "List" /\ cv.kind = "Array" /\ op = "ExcludesAll" ->
                \A i \in 1..Len(pv.list) : ~Contains(cv.arr, pv.list[i])
          [] pv.kind = "Integer" /\ cv.kind = "Array" /\ op = "ExcludesAll" ->
                ~Contains(cv.arr, pv.i)
          [] OTHER -> FALSE

RECURSIVE check(_, _)
check(ast, s) ==
    CASE ast.node = "Single" -> check_single(ast, s)
      [] ast.node = "And" -> check(ast.left, s) /\ check(ast.right, s)
      [] ast.node = "Or" -> check(ast.left, s) \/ check(ast.right, s)


(***************************************************************************)
(* Parse cache (condition/cache.rs).  The cache maps condition strings to  *)
(* ASTs.  The operators below are one uninterrupted call; CacheSpec takes  *)
(* get_or_parse apart into its lock steps.                                 *)
(***************************************************************************)
\* an insert that overwrites every entry with the new AST
cache_insert_all_slots(c, condition, ast) ==
    [k \in DOMAIN c \cup {condition} |-> ast]

cache_insert(c, condition, ast) ==
    [k \in DOMAIN c \cup {condition} |-> IF k = condition THEN ast ELSE c[k]]

cache_get(c, condition) ==
    IF condition \in DOMAIN c THEN Some(c[condition]) ELSE None

\* get_or_parse: the result and the cache it leaves
get_or_parse(c, condition) ==
    IF IsSome(cache_get(c, condition))
    THEN [r |-> Ok(cache_get(c, condition).some), cache |-> c]
    ELSE The({IF ~ast.ok THEN [r |-> Err, cache |-> c]
              ELSE [r |-> Ok(ast.v), cache |-> cache_insert(c, condition, ast.v)] :
                 ast \in {parse(condition)}})

check_condition(c, condition, s) ==
    IF condition = <<>> THEN [r |-> Ok(TRUE), cache |-> c]
    ELSE The({IF ~got.r.ok THEN [r |-> Err, cache |-> got.cache]
              ELSE [r |-> Ok(check(got.r.v, s)), cache |-> got.cache] :
                 got \in {get_or_parse(c, condition)}})

(***************************************************************************)
(* Event selection (event/selector.rs).  Weights are whole numbers; the    *)
(* draw rng.gen::<f64>() * total_weight is k / Grain for 0 <= k <          *)
(* total_weight * Grain, so that 0, interior and boundary values occur.    *)
(***************************************************************************)
Grain == 2

RECURSIVE select_filter(_, _, _, _, _, _, _)
\* the filtering pass without the no_random test
select_filter_keep_no_random(event_pool, events, s, i, available, total_weight, c) ==
    IF i > Len(event_pool)
    THEN [available |-> available, total_weight |-> total_weight, cache |-> c]
    ELSE LET event_id == event_pool[i][1]
             weight == event_pool[i][2]
             \* continue
             skip(cc) == select_filter(event_pool, events, s, i + 1, available,
                                       total_weight, cc)
             keep(cc) == select_filter(event_pool, events, s, i + 1,
                                       Append(available, event_pool[i]),
                                       total_weight + weight, cc)
         IN  IF event_id \notin DOMAIN events THEN skip(c)
             ELSE LET event == events[event_id]
                  IN  The({
                         IF unwrap_or(ex.r, FALSE) THEN skip(ex.cache)
                         ELSE The({IF ~unwrap_or(inc.r, TRUE) THEN skip(inc.cache)
                                   ELSE keep(inc.cache) :
                                      inc \in {IF IsSome(event.include)
                                                THEN check_condition(ex.cache,
                                                                     event.include.some, s)
                                                ELSE [r |-> Ok(TRUE), cache |-> ex.cache]}}) :
                            ex \in {IF IsSome(event.exclude)
                                     THEN check_condition(c, event.exclude.some, s)
                                     ELSE [r |-> Ok(FALSE), cache |-> c]}})

\* the filtering pass of select_event from pool entry i on
select_filter(event_pool, events, s, i, available, total_weight, c) ==
    IF i > Len(event_pool)
    THEN [available |-> available, total_weight |-> total_weight, cache |-> c]
    ELSE LET event_id == event_pool[i][1]
             weight == event_pool[i][2]
             \* continue
             skip(cc) == select_filter(event_pool, events, s, i + 1, available,
                                       total_weight, cc)
             keep(cc) == select_filter(event_pool, events, s, i + 1,
                                       Append(available, event_pool[i]),
                                       total_weight + weight, cc)
         IN  IF event_id \notin DOMAIN events THEN skip(c)
             ELSE LET event == events[event_id]
                  IN  IF event.no_random THEN skip(c)
                      ELSE The({
                         IF unwrap_or(ex.r, FALSE) THEN skip(ex.cache)
                         ELSE The({IF ~unwrap_or(inc.r, TRUE) THEN skip(inc.cache)
                                   ELSE keep(inc.cache) :
                                      inc \in {IF IsSome(event.include)
                                                THEN check_condition(ex.cache,
                                                                     event.include.some, s)
                                                ELSE [r |-> Ok(TRUE), cache |-> ex.cache]}}) :
                            ex \in {IF IsSome(event.exclude)
                                     THEN check_condition(c, event.exclude.some, s)
                                     ELSE [r |-> Ok(FALSE), cache |-> c]}})

\* the subtracting scan of a weighted draw: random_value is k / Grain
RECURSIVE weighted_scan(_, _, _)
weighted_scan(items, i, k) ==
    IF i > Len(items)
    THEN \* fallback to the last item
         IF items = <<>> THEN None ELSE Some(items[Len(items)][1])
    ELSE LET rest == k - Grain * items[i][2]
         IN  IF rest <= 0 THEN Some(items[i][1]) ELSE weighted_scan(items, i + 1, rest)

\* the draws rng can produce for a total weight
Draws(total_weight) == 0..(total_weight * Grain - 1)

\* select_event: every outcome it can produce, with the cache it leaves
select_event(event_pool, events, s, c) ==
    UNION {IF f.available = <<>> \/ f.total_weight <= 0
           THEN {[id |-> None, cache |-> f.cache]}
           ELSE {[id |-> weighted_scan(f.available, 1, k), cache |-> f.cache] :
                    k \in Draws(f.total_weight)} :
              f \in {select_filter(event_pool, events, s, 1, <<>>, 0, c)}}

RECURSIVE SumWeights(_)
SumWeights(items) ==
    IF items = <<>> THEN 0 ELSE items[1][2] + SumWeights(Tail(items))

\* weighted_random: every outcome it can produce
weighted_random(items) ==
    IF items = <<>> THEN {None}
    ELSE IF SumWeights(items) <= 0 THEN {None}
    ELSE {weighted_scan(items, 1, k) : k \in Draws(SumWeights(items))}

(***************************************************************************)
(* Event processing (event/processor.rs).                                  *)
(***************************************************************************)
EventResult(event_id, event, next_event_id, post_event) ==
    [event_id |-> event_id, description |-> event.event, grade |-> event.grade,
     effect |-> event.effect, next_event_id |-> next_event_id,
     post_event |-> post_event]

RECURSIVE process_branches(_, _, _, _, _, _)
\* the branch loop that keeps scanning after a match (last match wins)
process_branches_last(event_id, event, branches, i, s, c) ==
    IF i > Len(branches)
    THEN [res |-> Some(EventResult(event_id, event, None, event.post_event)), cache |-> c]
    ELSE The({The({IF unwrap_or(cc.r, FALSE) /\ rest.res.some.next_event_id = None
                   THEN [res |-> Some(EventResult(event_id, event,
                                                  Some(branches[i].event_id), None)),
                         cache |-> rest.cache]
                   ELSE rest :
                      rest \in {process_branches(event_id, event, branches, i + 1, s,
                                                 cc.cache)}}) :
                 cc \in {check_condition(c, branches[i].condition, s)}})

\* the branch loop of process_event from branch i on
process_branches(event_id, event, branches, i, s, c) ==
    IF i > Len(branches)
    THEN [res |-> Some(EventResult(event_id, event, None, event.post_event)), cache |-> c]
    ELSE The({IF unwrap_or(cc.r, FALSE)
              THEN [res |-> Some(EventResult(event_id, event,
                                             Some(branches[i].event_id), None)),
                    cache |-> cc.cache]
              ELSE process_branches(event_id, event, branches, i + 1, s, cc.cache) :
                 cc \in {check_condition(c, branches[i].condition, s)}})

\* a process_event that makes up a result for an id the catalogue lacks
process_event_any_id(event_id, events, s, c) ==
    IF event_id \notin DOMAIN events
    THEN [res |-> Some([event_id |-> event_id, description |-> <<"event", event_id>>,
                        grade |-> 0, effect |-> None, next_event_id |-> None,
                        post_event |-> None]),
          cache |-> c]
    ELSE LET event == events[event_id]
         IN  IF IsSome(event.branch)
             THEN process_branches(event_id, event, event.branch.some, 1, s, c)
             ELSE [res |-> Some(EventResult(event_id, event, None, event.post_event)),
                   cache |-> c]

\* process_event: None for an id the catalogue lacks, else the first branch
\* whose condition holds, else the event with its post_event
process_event(event_id, events, s, c) ==
    IF event_id \notin DOMAIN events THEN [res |-> None, cache |-> c]
    ELSE LET event == events[event_id]
         IN  IF IsSome(event.branch)
             THEN process_branches(event_id, event, event.branch.some, 1, s, c)
             ELSE [res |-> Some(EventResult(event_id, event, None, event.post_event)),
                   cache |-> c]


(***************************************************************************)
(* Talent processing (talent/processor.rs).                                *)
(***************************************************************************)
\* trigger_counts.get(id).copied().unwrap_or(0)
count_of(counts, id) ==
    IF id \in DOMAIN counts THEN counts[id] ELSE 0

\* an increment that never counts past one
count_incr_stuck(counts, id) ==
    [k \in DOMAIN counts \cup {id} |-> IF k = id THEN 1 ELSE counts[k]]

\* *trigger_counts.entry(id).or_insert(0) += 1
count_incr(counts, id) ==
    [k \in DOMAIN counts \cup {id} |->
        IF k = id THEN count_of(counts, id) + 1 ELSE counts[k]]

TalentTriggerResult(talent) ==
    [talent_id |-> talent.id, name |-> talent.name, description |-> talent.description,
     grade |-> talent.grade, effect |-> talent.effect]

\* the loop of process_talents over state.tlt from position i on; the state
\* is read only, so every condition sees the state the pass started with
RECURSIVE process_talents_from(_, _, _, _, _, _)
process_talents_from(s, talents, i, counts, results, c) ==
    IF i > Len(s.tlt)
    THEN [results |-> results, trigger_counts |-> counts, cache |-> c]
    ELSE LET talent_id == s.tlt[i]
         IN  IF talent_id \notin DOMAIN talents
             THEN process_talents_from(s, talents, i + 1, counts, results, c)
             ELSE LET talent == talents[talent_id]
                      current_count == count_of(counts, talent_id)
                  IN  IF current_count >= talent.max_triggers
                      THEN process_talents_from(s, talents, i + 1, counts,
                                                results, c)
                      ELSE The({
                             IF ~unwrap_or(cc.r, FALSE)
                             THEN process_talents_from(s, talents, i + 1,
                                                       counts, results, cc.cache)
                             ELSE process_talents_from(s, talents, i + 1,
                                      count_incr(counts, talent_id),
                                      Append(results, TalentTriggerResult(talent)),
                                      cc.cache) :
                                cc \in {IF IsSome(talent.condition)
                                        THEN check_condition(c, talent.condition.some, s)
                                        ELSE [r |-> Ok(TRUE), cache |-> c]}})

process_talents(s, talents, counts, c) ==
    process_talents_from(s, talents, 1, counts, <<>>, c)

\* one scalar field of an effect applied without its extrema
apply_field_no_extrema(s, f, delta) ==
    IF delta # 0 THEN [s EXCEPT ![f] = s[f] + delta] ELSE s

\* one scalar field of an effect applied by direct field access: the
\* field, then its minimum and its maximum against the new value
apply_field(s, f, delta) ==
    IF delta # 0
    THEN [s EXCEPT ![f] = s[f] + delta,
                   ![LField[f]] = Min(s[LField[f]], s[f] + delta),
                   ![HField[f]] = Max(s[HField[f]], s[f] + delta)]
    ELSE s

\* apply_talent_effect: the states it can leave (RDM chooses at random)
apply_talent_effect(s, effect) ==
    LET s1 == apply_field(s, "chr", effect.chr)
        s2 == apply_field(s1, "int", effect.int)
        s3 == apply_field(s2, "str_", effect.str_)
        s4 == apply_field(s3, "mny", effect.mny)
        s5 == apply_field(s4, "spr", effect.spr)
        s6 == IF effect.lif # 0 THEN [s5 EXCEPT !.lif = s5.lif + effect.lif] ELSE s5
        s7 == apply_field(s6, "age", effect.age)
    IN  IF effect.rdm # 0 THEN change(s7, "RDM", effect.rdm) ELSE {s7}

\* a set of states, each changed by one call of change when delta is not 0
change_if(S, prop, delta) ==
    IF delta # 0 THEN UNION {change(s, prop, delta) : s \in S} ELSE S

\* apply_event_effect (simulator/engine.rs): the states it can leave
apply_event_effect(s, effect) ==
    LET s1 == change_if({s}, "CHR", effect.chr)
        s2 == change_if(s1, "INT", effect.int)
        s3 == change_if(s2, "STR", effect.str_)
        s4 == change_if(s3, "MNY", effect.mny)
        s5 == change_if(s4, "SPR", effect.spr)
        s6 == change_if(s5, "LIF", effect.lif)
        s7 == change_if(s6, "AGE", effect.age)
    IN  change_if(s7, "RDM", effect.rdm)

(***************************************************************************)
(* Talent exclusion (talent/replacer.rs).                                  *)
(***************************************************************************)
\* the scan of check_exclusion over the present talents from position i on
RECURSIVE check_exclusion_from(_, _, _, _)
check_exclusion_from(talents, i, exclude_id, talent_configs) ==
    IF i > Len(talents) THEN None
    ELSE LET talent_id == talents[i]
             exclude_talent == talent_configs[exclude_id]
         IN  IF IsSome(exclude_talent.exclude)
                /\ Contains(exclude_talent.exclude.some, talent_id)
             THEN Some(talent_id)
             ELSE IF talent_id \in DOMAIN talent_configs
                     /\ IsSome(talent_configs[talent_id].exclude)
                     /\ Contains(talent_configs[talent_id].exclude.some, exclude_id)
             THEN Some(talent_id)
             ELSE check_exclusion_from(talents, i + 1, exclude_id, talent_configs)

check_exclusion(talents, exclude_id, talent_configs) ==
    IF exclude_id \notin DOMAIN talent_configs THEN None
    ELSE check_exclusion_from(talents, 1, exclude_id, talent_configs)

(***************************************************************************)
(* Achievements (achievement/checker.rs, config/achievement.rs).           *)
(***************************************************************************)
\* str::to_uppercase on the opportunity strings configurations use
to_uppercase(str) ==
    CASE str = "start" -> "START"
      [] str = "trajectory" -> "TRAJECTORY"
      [] str = "summary" -> "SUMMARY"
      [] OTHER -> str

Opportunity_from_str(str) ==
    CASE to_uppercase(str) = "START" -> Some("Start")
      [] to_uppercase(str) = "TRAJECTORY" -> Some("Trajectory")
      [] to_uppercase(str) = "SUMMARY" -> Some("Summary")
      [] OTHER -> None

is_achieved(achievement_id, achieved) ==
    \E g \in 1..Len(achieved) : Contains(achieved[g], achievement_id)

\* an unlock that records nothing
unlock_achievement_noop(achievement_id, achieved) == achieved

unlock_achievement(achievement_id, achieved) ==
    IF achieved = <<>> THEN << <<achievement_id>> >>
    ELSE [achieved EXCEPT ![1] = Append(achieved[1], achievement_id)]

\* the loop of check_achievements; order is the order in which the HashMap
\* yields the catalogue's ids
RECURSIVE check_achievements_from(_, _, _, _, _, _, _, _)
check_achievements_from(opportunity, s, achieved, achievements, order, i, acc, c) ==
    IF i > Len(order) THEN [new |-> acc, cache |-> c]
    ELSE LET achievement == achievements[order[i]]
         IN  IF Opportunity_from_str(achievement.opportunity) # Some(opportunity)
             THEN check_achievements_from(opportunity, s, achieved, achievements,
                                          order, i + 1, acc, c)
             ELSE IF is_achieved(achievement.id, achieved)
             THEN check_achievements_from(opportunity, s, achieved, achievements,
                                          order, i + 1, acc, c)
             ELSE The({check_achievements_from(opportunity, s, achieved, achievements,
                           order, i + 1,
                           IF unwrap_or(cc.r, FALSE)
                           THEN Append(acc, achievement.id) ELSE acc,
                           cc.cache) :
                         cc \in {check_condition(c, achievement.condition, s)}})

\* a sweep that stops at its first award
check_achievements_first_only(opportunity, s, achieved, achievements, order, c) ==
    The({[new |-> IF r.new = <<>> THEN <<>> ELSE <<Head(r.new)>>, cache |-> r.cache] :
            r \in {check_achievements_from(opportunity, s, achieved, achievements,
                                           order, 1, <<>>, c)}})

check_achievements(opportunity, s, achieved, achievements, order, c) ==
    check_achievements_from(opportunity, s, achieved, achievements, order, 1, <<>>, c)

\* the orders in which a HashMap can yield its keys
RECURSIVE Orders(_)
Orders(K) ==
    IF K = {} THEN {<<>>}
    ELSE UNION {{<<k>> \o o : o \in Orders(K \ {k})} : k \in K}

\* the unlocking loops of simulate after a sweep
RECURSIVE unlock_all(_, _)
unlock_all(ids, achieved) ==
    IF ids = <<>> THEN achieved
    ELSE unlock_all(Tail(ids), unlock_achievement(Head(ids), achieved))


(***************************************************************************)
(* Talent replacement (talent/replacer.rs).  replace_talent is recursive;  *)
(* replace_level is one level of it, and the simulation takes one level    *)
(* per step.                                                               *)
(***************************************************************************)
\* i32::to_string
RECURSIVE nat_to_string(_)
nat_to_string(n) ==
    IF n < 10 THEN <<Digits[n + 1]>>
    ELSE Append(nat_to_string(n \div 10), Digits[(n % 10) + 1])

to_string(n) == IF n < 0 THEN <<"-">> \o nat_to_string(-n) ELSE nat_to_string(n)

\* "replace by grade": talents.values() in the order the HashMap yields them
RECURSIVE replace_by_grade(_, _, _, _, _, _)
replace_by_grade(order, i, grade_map, existing_talents, talents, replace_list) ==
    IF i > Len(order) THEN replace_list
    ELSE LET t == talents[order[i]]
             grade_key == to_string(t.grade)
         IN  IF t.exclusive
             THEN replace_by_grade(order, i + 1, grade_map, existing_talents, talents,
                                   replace_list)
             ELSE IF grade_key \in DOMAIN grade_map
                     /\ ~IsSome(check_exclusion(existing_talents, t.id, talents))
             THEN replace_by_grade(order, i + 1, grade_map, existing_talents, talents,
                                   Append(replace_list, <<t.id, grade_map[grade_key]>>))
             ELSE replace_by_grade(order, i + 1, grade_map, existing_talents, talents,
                                   replace_list)

\* "replace by specific talent": the keys of talent_map in the order yielded
RECURSIVE replace_by_talent(_, _, _, _, _, _)
replace_by_talent(order, i, talent_map, existing_talents, talents, replace_list) ==
    IF i > Len(order) THEN replace_list
    ELSE LET tid == parse_i32(order[i])
         IN  IF tid.ok /\ ~IsSome(check_exclusion(existing_talents, tid.v, talents))
             THEN replace_by_talent(order, i + 1, talent_map, existing_talents, talents,
                                    Append(replace_list, <<tid.v, talent_map[order[i]]>>))
             ELSE replace_by_talent(order, i + 1, talent_map, existing_talents, talents,
                                    replace_list)

\* the replace_list a call can build, one for every iteration order
replace_lists(replacement, existing_talents, talents) ==
    LET byGrade == IF IsSome(replacement.grade)
                   THEN {replace_by_grade(o, 1, replacement.grade.some,
                                          existing_talents, talents, <<>>) :
                            o \in Orders(DOMAIN talents)}
                   ELSE {<<>>}
    IN  IF IsSome(replacement.talent)
        THEN UNION {{replace_by_talent(o, 1, replacement.talent.some,
                                       existing_talents, talents, l) :
                        o \in Orders(DOMAIN replacement.talent.some)} : l \in byGrade}
        ELSE byGrade

\* one level of replace_talent: either it returns id (done), or it calls
\* itself on id with id pushed on the existing talents; drawn tells whether
\* id came out of weighted_random
replace_level(talent_id, existing_talents, talents) ==
    IF talent_id \notin DOMAIN talents
    THEN {[done |-> TRUE, id |-> talent_id, drawn |-> FALSE]}
    ELSE IF ~IsSome(talents[talent_id].replacement)
    THEN {[done |-> TRUE, id |-> talent_id, drawn |-> FALSE]}
    ELSE UNION {
            IF replace_list = <<>>
            THEN {[done |-> TRUE, id |-> talent_id, drawn |-> FALSE]}
            ELSE {[done |-> FALSE, id |-> IF IsSome(w) THEN w.some ELSE talent_id,
                   drawn |-> IsSome(w)] :
                     w \in weighted_random(replace_list)} :
            replace_list \in replace_lists(talents[talent_id].replacement.some,
                                           existing_talents, talents)}

\* the body of the loop of apply_replacements for position i, once
\* replace_talent has returned replaced_id
apply_replacement_at(talent_ids, i, replaced_id, acc, repls, talents) ==
    LET talent_id == talent_ids[i]
    IN  IF replaced_id # talent_id
        THEN [new_talents |-> Append([acc EXCEPT ![i] = replaced_id], replaced_id),
              replacements |->
                  IF talent_id \in DOMAIN talents /\ replaced_id \in DOMAIN talents
                  THEN Append(repls, [source_id |-> talent_id, target_id |-> replaced_id])
                  ELSE repls]
        ELSE [new_talents |-> acc, replacements |-> repls]

\* a truncate that keeps the whole accumulator
truncate_keep_all(v, n) == v

\* Vec::truncate
truncate(v, n) == IF Len(v) > n THEN SubSeq(v, 1, n) ELSE v


(***************************************************************************)
(* PropSpec: a PropertyState after new, under any sequence of change       *)
(* calls.                                                                  *)
(***************************************************************************)
\* the property names change is called with ("XYZ" is an unknown name)
ChangeProps == {"AGE", "CHR", "INT", "STR", "MNY", "SPR", "LIF", "TLT", "EVT",
                "RDM", "XYZ"}

\* the deltas (for TLT and EVT: the ids) change is called with
ChangeDeltas == {-1, 2}

\* the seeds of new: distinct values, so that no field stands in for another
SeedStates == {new(chr, 6, 7, 8, 5, lif) : chr \in {-1, 4}, lif \in {1, 2}}

Observe(h, s) == [f \in Tracked |-> h[f] \cup {s[f]}]

PropInit ==
    /\ state \in SeedStates
    /\ seen = [f \in Tracked |-> {state[f]}]
    /\ calls = 0
    /\ cache = <<>>
    /\ FnIdle /\ CacheIdle /\ SimIdle

PropChange(prop, delta) ==
    /\ calls < MaxCalls
    /\ state' \in change(state, prop, delta)
    /\ seen' = Observe(seen, state')
    /\ calls' = calls + 1
    /\ UNCHANGED <<cache, fnVars, cacheVars, simVars>>

PropNext == \E prop \in ChangeProps, delta \in ChangeDeltas : PropChange(prop, delta)

PropSpec == PropInit /\ [][PropNext]_vars

\* C1: after new and any sequence of change calls, every tracked scalar X
\* lies between its recorded extrema: lX <= X <= hX.
C1_ExtremaBracket ==
    \A f \in Tracked : state[LField[f]] <= state[f] /\ state[f] <= state[HField[f]]

\* a scalar that went down and up again lies strictly between its extrema
C1_Witness ==
    /\ calls >= 2
    /\ state.lchr < state.chr /\ state.chr < state.hchr

\* C2: lX is the minimum and hX the maximum of all values X has taken since
\* construction, the seed value (for AGE the initial -1) included.
C2_ExtremaAreRunningMinMax ==
    \A f \in Tracked :
        /\ state[LField[f]] = SetMin(seen[f])
        /\ state[HField[f]] = SetMax(seen[f])

\* AGE has risen from its initial -1 and come back below its maximum
C2_Witness ==
    /\ state.lage = -1 /\ state.age > -1 /\ state.age < state.hage
    /\ Cardinality(seen["age"]) >= 3


(***************************************************************************)
(* StateSpec: a PropertyState after new, under change calls, with the ids  *)
(* passed for TLT and EVT recorded and calculate_summary_score called on   *)
(* the states reached.                                                     *)
(***************************************************************************)
StateProps == {"AGE", "CHR", "LIF", "TLT", "EVT", "RDM", "XYZ"}

\* the deltas, and for TLT and EVT the ids
StateDeltas == {-1, 1, 2}

StateInit ==
    /\ state \in {new(chr, 6, 7, 8, 5, 1) : chr \in {-3, 4}}
    /\ fin = [TLT |-> <<>>, EVT |-> <<>>]
    /\ fout = None
    /\ calls = 0
    /\ seen = <<>>
    /\ cache = <<>>
    /\ CacheIdle /\ SimIdle

\* state.change(prop, delta)
StateChange(prop, delta) ==
    /\ calls < MaxCalls
    /\ state' \in change(state, prop, delta)
    /\ fin' = IF prop \in {"TLT", "EVT"}
              THEN [fin EXCEPT ![prop] = Append(fin[prop], delta)] ELSE fin
    /\ calls' = calls + 1
    /\ fout' = None
    /\ UNCHANGED <<seen, cache, cacheVars, simVars>>

\* state.calculate_summary_score()
StateScore ==
    /\ fout = None
    /\ fout' = Some(calculate_summary_score(state))
    /\ UNCHANGED <<state, fin, calls, seen, cache, cacheVars, simVars>>

StateNext ==
    \/ \E prop \in StateProps, delta \in StateDeltas : StateChange(prop, delta)
    \/ StateScore

StateSpec == StateInit /\ [][StateNext]_vars

\* q is a / 2 truncated toward zero
HalfTowardZero(a, q) == \E r \in {-1, 0, 1} : a = 2 * q + r /\ r * a >= 0

\* C13: calculate_summary_score returns (max(hCHR,CHR) + max(hINT,INT) +
\* max(hSTR,STR) + max(hMNY,MNY) + max(hSPR,SPR)) * 2 + max(hAGE,AGE) / 2,
\* the division truncating toward zero.
C13_SummaryScore ==
    IsSome(fout) =>
        \E q \in -MaxCalls..MaxCalls :
            /\ HalfTowardZero(Max(state.hage, state.age), q)
            /\ fout.some = (Max(state.hchr, state.chr) + Max(state.hint, state.int)
                            + Max(state.hstr, state.str_) + Max(state.hmny, state.mny)
                            + Max(state.hspr, state.spr)) * 2 + q

\* the score of a state whose highest age is still the initial -1, after
\* the age went further down
C13_Witness ==
    /\ IsSome(fout) /\ state.hage = -1 /\ state.age < -1
    /\ fout.some = (state.hchr + 26) * 2

\* the score of a state whose age and CHR were raised and lowered again
C13_WitnessRaised ==
    /\ IsSome(fout) /\ state.hage = 3 /\ state.age < 3 /\ state.chr < state.hchr

\* the index of the first call that passed id
FirstCall(ids, id) == CHOOSE i \in 1..Len(ids) : ids[i] = id /\ \A j \in 1..(i - 1) : ids[j] # id

\* list holds every id passed, once, in the order of the first calls
FirstInsertionOrder(list, ids) ==
    /\ NoDup(list)
    /\ Range(list) = Range(ids)
    /\ \A i, j \in 1..Len(list) :
          i < j => FirstCall(ids, list[i]) < FirstCall(ids, list[j])

\* C14: after any sequence of change("TLT", id) and change("EVT", id) calls,
\* tlt and evt hold no id twice and keep the order of first insertion; a
\* call with an id already present leaves the list as it was.
C14_ListsAreOrderedSets ==
    /\ FirstInsertionOrder(state.tlt, fin.TLT)
    /\ FirstInsertionOrder(state.evt, fin.EVT)

\* an id was passed a second time after another id, and both lists are in use
C14_Witness ==
    /\ fin.TLT = <<2, -1, 2>> /\ state.tlt = <<2, -1>>
    /\ fin.EVT = <<1>> /\ state.evt = <<1>>


(***************************************************************************)
(* Configuration records (config/*.rs) and the condition strings the       *)
(* specifications use.                                                     *)
(***************************************************************************)
TalentConfig(id, grade, max_triggers, condition, effect, exclusive, exclude, replacement) ==
    [id |-> id, name |-> <<"name", id>>, description |-> <<"description", id>>,
     grade |-> grade, max_triggers |-> max_triggers,
     condition |-> condition, effect |-> effect, exclusive |-> exclusive,
     exclude |-> exclude, replacement |-> replacement]

Effect(chr, int, str_, mny, spr, lif, age, rdm) ==
    [chr |-> chr, int |-> int, str_ |-> str_, mny |-> mny, spr |-> spr,
     lif |-> lif, age |-> age, rdm |-> rdm]

NoEffect == Effect(0, 0, 0, 0, 0, 0, 0, 0)

EventConfig(id, no_random, include, exclude, effect, branch, post_event) ==
    [id |-> id, event |-> <<"event", id>>, grade |-> 0, no_random |-> no_random,
     include |-> include, exclude |-> exclude, effect |-> effect,
     branch |-> branch, post_event |-> post_event]

EventBranch(condition, event_id) == [condition |-> condition, event_id |-> event_id]

AgeConfig(talents, events) == [talents |-> talents, events |-> events]

AchievementConfig(id, opportunity, condition) ==
    [id |-> id, opportunity |-> opportunity, condition |-> condition]

JudgeLevel(min, grade) == [min |-> min, grade |-> grade, text |-> <<"text", grade>>]

TalentReplacement(grade, talent) == [grade |-> grade, talent |-> talent]

Empty == <<>>

CHR_GT_5 == <<"C", "H", "R", ">", "5">>

CHR_GT_10 == <<"C", "H", "R", ">", "1", "0">>

CHR_GT_15 == <<"C", "H", "R", ">", "1", "5">>

CHR_GE_5 == <<"C", "H", "R", ">", "=", "5">>

CHR_LT_5 == <<"C", "H", "R", "<", "5">>

AGE_GE_0 == <<"A", "G", "E", ">", "=", "0">>

AGE_GE_1 == <<"A", "G", "E", ">", "=", "1">>

LIF_LT_1 == <<"L", "I", "F", "<", "1">>

EVT_HAS_1 == <<"E", "V", "T", "?", "[", "1", "]">>

CHR_GT_5_OR_INT_LT_10 ==
    <<"C", "H", "R", ">", "5", " ", "|", " ", "I", "N", "T", "<", "1", "0">>

\* strings that do not parse: no operator, unbalanced parentheses
BAD_NO_OP == <<"C", "H", "R">>

BAD_PAREN == <<"(", "C", "H", "R", ">", "5">>

\* what a condition string means on a state, by parse and check alone: it
\* holds, it fails, or (when it does not parse) neither
Holds(condition, s) ==
    condition = Empty \/ \E ast \in {parse(condition)} : ast.ok /\ check(ast.v, s)

Fails(condition, s) ==
    condition # Empty /\ \E ast \in {parse(condition)} : ast.ok /\ ~check(ast.v, s)

\* sequences over a set, up to a length
RECURSIVE SeqsUpTo(_, _)
SeqsUpTo(S, n) ==
    IF n = 0 THEN {<<>>}
    ELSE SeqsUpTo(S, n - 1) \cup
         {Append(q, x) : q \in {r \in SeqsUpTo(S, n - 1) : Len(r) = n - 1}, x \in S}

(***************************************************************************)
(* ExclSpec: check_exclusion on every present list, candidate and          *)
(* catalogue of a small family (id 4 is in no catalogue).                  *)
(***************************************************************************)
MaxPresent == 2

ExclIds == 1..4

ExclLists == {None} \cup {Some(<<a>>) : a \in ExclIds} \cup {Some(<<1, 3>>)}

ExclCatalogues ==
    {[id \in 1..3 |-> TalentConfig(id, 0, 1, None, None, FALSE, e[id], None)] :
        e \in [1..3 -> ExclLists]}

ExclInit ==
    /\ fin \in [talents : SeqsUpTo(ExclIds, MaxPresent), exclude_id : ExclIds,
                talent_configs : ExclCatalogues]
    /\ fout = None
    /\ calls = 0
    /\ cache = <<>>
    /\ state = <<>> /\ seen = <<>>
    /\ CacheIdle /\ SimIdle

ExclCall ==
    /\ calls = 0
    /\ fout' = Some(check_exclusion(fin.talents, fin.exclude_id, fin.talent_configs))
    /\ calls' = 1
    /\ UNCHANGED <<fin, state, seen, cache, cacheVars, simVars>>

ExclNext == ExclCall

ExclSpec == ExclInit /\ [][ExclNext]_vars

\* exclude(x): the exclude list a catalogue declares for x
ExcludeSet(configs, x) ==
    IF x \in DOMAIN configs /\ IsSome(configs[x].exclude)
    THEN Range(configs[x].exclude.some) ELSE {}

Conflict(configs, present, c) ==
    \E i \in 1..Len(present) :
        c \in ExcludeSet(configs, present[i]) \/ present[i] \in ExcludeSet(configs, c)

\* C7: check_exclusion(S, c) returns a conflicting talent if and only if some
\* s in S satisfies c in exclude(s) or s in exclude(c).
C7_ExclusionBidirectional ==
    IsSome(fout) =>
        (IsSome(fout.some) <=> Conflict(fin.talent_configs, fin.talents, fin.exclude_id))


\* with the early return for a candidate the catalogue lacks left aside,
\* the scan does report exactly the bidirectional conflicts
ExclKnownCandidate ==
    (IsSome(fout) /\ fin.exclude_id \in DOMAIN fin.talent_configs) =>
        (IsSome(fout.some) <=> Conflict(fin.talent_configs, fin.talents, fin.exclude_id))

(***************************************************************************)
(* SelectSpec: select_event on pools over a catalogue that has one event   *)
(* of every kind the filter distinguishes (id 9 is not in the catalogue).  *)
(***************************************************************************)
MaxPool == 3

SelectEvents ==
    [id \in 1..8 |->
        CASE id = 1 -> EventConfig(1, FALSE, None, None, None, None, None)
          [] id = 2 -> EventConfig(2, TRUE, None, None, None, None, None)
          [] id = 3 -> EventConfig(3, FALSE, Some(CHR_GT_5), None, None, None, None)
          [] id = 4 -> EventConfig(4, FALSE, None, Some(CHR_GT_5), None, None, None)
          [] id = 5 -> EventConfig(5, FALSE, Some(BAD_NO_OP), None, None, None, None)
          [] id = 6 -> EventConfig(6, FALSE, None, Some(BAD_PAREN), None, None, None)
          [] id = 7 -> EventConfig(7, FALSE, Some(Empty), None, None, None, None)
          [] id = 8 -> EventConfig(8, FALSE, None, Some(Empty), None, None, None)]

SelectPoolEntries == {<<id, w>> : id \in 1..9, w \in {0, 1}}

SelectInit ==
    /\ fin \in [event_pool : SeqsUpTo(SelectPoolEntries, MaxPool), events : {SelectEvents}]
    /\ state \in {new(chr, 6, 7, 8, 5, 1) : chr \in {3, 7}}
    /\ fout = None
    /\ calls = 0
    /\ cache = <<>>
    /\ seen = <<>>
    /\ CacheIdle /\ SimIdle

SelectCall ==
    /\ calls = 0
    /\ \E o \in select_event(fin.event_pool, fin.events, state, cache) :
           fout' = Some(o.id) /\ cache' = o.cache
    /\ calls' = 1
    /\ UNCHANGED <<fin, state, seen, cacheVars, simVars>>

SelectNext == SelectCall

SelectSpec == SelectInit /\ [][SelectNext]_vars

InPool(event_pool, id) == \E i \in 1..Len(event_pool) : event_pool[i][1] = id

\* C6: select_event never returns an id that is missing from the catalogue,
\* marked no_random, whose exclude condition is true or whose include
\* condition is false; a returned id is one of the pool entries.
C6_SelectedPassesFilters ==
    (IsSome(fout) /\ IsSome(fout.some)) =>
        LET id == fout.some.some
        IN  /\ id \in DOMAIN fin.events
            /\ ~fin.events[id].no_random
            /\ ~(IsSome(fin.events[id].exclude) /\ Holds(fin.events[id].exclude.some, state))
            /\ ~(IsSome(fin.events[id].include) /\ Fails(fin.events[id].include.some, state))
            /\ InPool(fin.event_pool, id)

\* an event with a true include condition was drawn from a pool that also
\* held a no_random event and an event whose exclude condition is true
C6_Witness ==
    /\ IsSome(fout) /\ fout.some = Some(3)
    /\ InPool(fin.event_pool, 2) /\ InPool(fin.event_pool, 4)

(***************************************************************************)
(* EventSpec: process_event on an event with every branch list over a      *)
(* small set of branches, and on an id the catalogue lacks.                *)
(***************************************************************************)
MaxBranches == 3

EventBranches ==
    {EventBranch(CHR_GT_15, 100), EventBranch(CHR_GT_10, 200), EventBranch(CHR_GT_5, 300),
     EventBranch(BAD_NO_OP, 400), EventBranch(Empty, 500)}

EventCatalogues ==
    {[id \in {1} |-> EventConfig(1, FALSE, None, None, Some(NoEffect), b, Some("post"))] :
        b \in {None} \cup {Some(q) : q \in SeqsUpTo(EventBranches, MaxBranches)}}

EventInit ==
    /\ fin \in [event_id : {1, 9}, events : EventCatalogues]
    /\ state \in {new(chr, 6, 7, 8, 5, 1) : chr \in {3, 7, 12, 20}}
    /\ fout = None
    /\ calls = 0
    /\ cache = <<>>
    /\ seen = <<>>
    /\ CacheIdle /\ SimIdle

EventCall ==
    /\ calls = 0
    /\ LET o == process_event(fin.event_id, fin.events, state, cache)
       IN  fout' = Some(o.res) /\ cache' = o.cache
    /\ calls' = 1
    /\ UNCHANGED <<fin, state, seen, cacheVars, simVars>>

EventNext == EventCall

EventSpec == EventInit /\ [][EventNext]_vars

\* the branches of the processed event (none when it declares no list)
BranchesOf(events, id) ==
    IF IsSome(events[id].branch) THEN events[id].branch.some ELSE <<>>

\* the positions of the branches whose condition holds
Matching(branches, s) == {i \in 1..Len(branches) : Holds(branches[i].condition, s)}

\* C8: process_event returns as next event the event_id of the first branch,
\* in declaration order, whose condition holds in the current state, and
\* leaves it unset when no branch matches or the event has no branches.
C8_FirstMatchingBranch ==
    (IsSome(fout) /\ IsSome(fout.some)) =>
        LET branches == BranchesOf(fin.events, fin.event_id)
            m == Matching(branches, state)
        IN  fout.some.some.next_event_id =
                IF m = {} THEN None ELSE Some(branches[SetMin(m)].event_id)

\* the second branch was taken: the first one fails, a later one holds too
C8_Witness ==
    /\ IsSome(fout) /\ IsSome(fout.some)
    /\ fout.some.some.next_event_id = Some(200)
    /\ LET branches == BranchesOf(fin.events, fin.event_id)
       IN  Len(branches) = 3 /\ Matching(branches, state) = {2, 3}

\* no branch matched although the event has branches
C8_WitnessNone ==
    /\ IsSome(fout) /\ IsSome(fout.some)
    /\ fout.some.some.next_event_id = None
    /\ fout.some.some.post_event = Some("post")
    /\ Len(BranchesOf(fin.events, fin.event_id)) = 3


(***************************************************************************)
(* CacheSpec: threads calling get_or_parse, check_condition and            *)
(* clear_cache on the global CONDITION_CACHE, one lock operation or one    *)
(* statement per step.                                                     *)
(***************************************************************************)
Threads == {"t1", "t2"}

CacheConditions == {CHR_GT_5, CHR_LT_5, BAD_NO_OP}

CacheStates == {new(chr, 6, 7, 8, 5, 1) : chr \in {3, 7}}

ThreadIdle ==
    [pc |-> "idle", op |-> "", condition |-> <<>>, st |-> <<>>, ast |-> None,
     hit |-> FALSE, ret |-> None]

Unlocked == [readers |-> {}, writer |-> None]

CacheInit ==
    /\ cache = <<>>
    /\ lock = Unlocked
    /\ thr = [t \in Threads |-> ThreadIdle]
    /\ calls = 0
    /\ state = <<>> /\ seen = <<>>
    /\ FnIdle /\ SimIdle

CacheFrame == UNCHANGED <<state, seen, fnVars, simVars>>

\* a thread enters get_or_parse, check_condition or clear_cache
CacheBegin(t, op, condition, st) ==
    /\ thr[t].pc = "idle"
    /\ calls < MaxCalls
    /\ calls' = calls + 1
    /\ thr' = [thr EXCEPT ![t] =
          CASE op = "clear_cache" ->
                  [ThreadIdle EXCEPT !.pc = "write_lock", !.op = op]
            [] op = "check_condition" /\ condition = <<>> ->
                  [ThreadIdle EXCEPT !.pc = "done", !.op = op, !.st = st,
                                     !.ret = Some(Ok(TRUE))]
            [] op = "check_condition" ->
                  [ThreadIdle EXCEPT !.pc = "read_lock", !.op = op,
                                     !.condition = condition, !.st = st]
            [] OTHER ->
                  [ThreadIdle EXCEPT !.pc = "read_lock", !.op = op,
                                     !.condition = condition]]
    /\ UNCHANGED <<cache, lock>>
    /\ CacheFrame

\* CONDITION_CACHE.read()
ReadLock(t) ==
    /\ thr[t].pc = "read_lock"
    /\ lock.writer = None
    /\ lock' = [lock EXCEPT !.readers = @ \cup {t}]
    /\ thr' = [thr EXCEPT ![t].pc = "lookup"]
    /\ UNCHANGED <<cache, calls>>
    /\ CacheFrame

\* cache.get(condition), cloning the AST on a hit
Lookup(t) ==
    /\ thr[t].pc = "lookup"
    /\ thr' = [thr EXCEPT ![t].pc = "read_unlock",
                          ![t].ast = cache_get(cache, thr[t].condition),
                          ![t].hit = IsSome(cache_get(cache, thr[t].condition))]
    /\ UNCHANGED <<cache, lock, calls>>
    /\ CacheFrame

\* a read guard that lives on until get_or_parse returns
ReadUnlock_guard_kept(t) ==
    /\ thr[t].pc = "read_unlock"
    /\ lock' = IF thr[t].hit THEN [lock EXCEPT !.readers = @ \ {t}] ELSE lock
    /\ thr' = [thr EXCEPT ![t].pc = IF thr[t].hit THEN "got" ELSE "parse"]
    /\ UNCHANGED <<cache, calls>>
    /\ CacheFrame

\* the read guard goes out of scope
ReadUnlock(t) ==
    /\ thr[t].pc = "read_unlock"
    /\ lock' = [lock EXCEPT !.readers = @ \ {t}]
    /\ thr' = [thr EXCEPT ![t].pc = IF thr[t].hit THEN "got" ELSE "parse"]
    /\ UNCHANGED <<cache, calls>>
    /\ CacheFrame

\* a parse whose failure is cached as a condition on nothing
Parse_failure_cached(t) ==
    /\ thr[t].pc = "parse"
    /\ \E ast \in {parse(thr[t].condition)} :
          thr' = [thr EXCEPT ![t] =
              IF ast.ok THEN [@ EXCEPT !.pc = "write_lock", !.ast = Some(ast.v)]
              ELSE [@ EXCEPT !.pc = "write_lock",
                             !.ast = Some(AstSingle(<<>>, "Equal", ValString(<<>>)))]]
    /\ UNCHANGED <<cache, lock, calls>>
    /\ CacheFrame

\* parser::parse(condition)?
Parse(t) ==
    /\ thr[t].pc = "parse"
    /\ \E ast \in {parse(thr[t].condition)} :
          thr' = [thr EXCEPT ![t] =
              IF ast.ok THEN [@ EXCEPT !.pc = "write_lock", !.ast = Some(ast.v)]
              ELSE [@ EXCEPT !.pc = "done", !.ret = Some(Err)]]
    /\ UNCHANGED <<cache, lock, calls>>
    /\ CacheFrame

\* CONDITION_CACHE.write()
WriteLock(t) ==
    /\ thr[t].pc = "write_lock"
    /\ lock = Unlocked
    /\ lock' = [lock EXCEPT !.writer = Some(t)]
    /\ thr' = [thr EXCEPT ![t].pc = IF thr[t].op = "clear_cache" THEN "clear" ELSE "insert"]
    /\ UNCHANGED <<cache, calls>>
    /\ CacheFrame

\* cache.insert(condition.to_string(), ast.clone())
Insert(t) ==
    /\ thr[t].pc = "insert"
    /\ cache' = cache_insert(cache, thr[t].condition, thr[t].ast.some)
    /\ thr' = [thr EXCEPT ![t].pc = "write_unlock"]
    /\ UNCHANGED <<lock, calls>>
    /\ CacheFrame

\* cache.clear()
Clear(t) ==
    /\ thr[t].pc = "clear"
    /\ cache' = <<>>
    /\ thr' = [thr EXCEPT ![t].pc = "write_unlock"]
    /\ UNCHANGED <<lock, calls>>
    /\ CacheFrame

\* the write guard goes out of scope
WriteUnlock(t) ==
    /\ thr[t].pc = "write_unlock"
    /\ lock' = [lock EXCEPT !.writer = None]
    /\ thr' = [thr EXCEPT ![t] =
          IF thr[t].op = "clear_cache" THEN [@ EXCEPT !.pc = "done"]
          ELSE [@ EXCEPT !.pc = "got"]]
    /\ UNCHANGED <<cache, calls>>
    /\ CacheFrame

\* get_or_parse returns Ok(ast); check_condition evaluates it
CacheReturn(t) ==
    /\ thr[t].pc = "got"
    /\ thr' = [thr EXCEPT ![t].pc = "done",
                          ![t].ret = IF thr[t].op = "check_condition"
                                     THEN Some(Ok(check(thr[t].ast.some, thr[t].st)))
                                     ELSE Some(Ok(thr[t].ast.some))]
    /\ UNCHANGED <<cache, lock, calls>>
    /\ CacheFrame

\* the caller takes the result; the thread is free for its next call
CacheFinish(t) ==
    /\ thr[t].pc = "done"
    /\ thr' = [thr EXCEPT ![t] = ThreadIdle]
    /\ UNCHANGED <<cache, lock, calls>>
    /\ CacheFrame

CacheNext ==
    \E t \in Threads :
        \/ \E condition \in CacheConditions : CacheBegin(t, "get_or_parse", condition, <<>>)
        \/ \E condition \in CacheConditions \cup {Empty}, st \in CacheStates :
               CacheBegin(t, "check_condition", condition, st)
        \/ CacheBegin(t, "clear_cache", <<>>, <<>>)
        \/ ReadLock(t) \/ Lookup(t) \/ ReadUnlock(t) \/ Parse(t)
        \/ WriteLock(t) \/ Insert(t) \/ Clear(t) \/ WriteUnlock(t)
        \/ CacheReturn(t) \/ CacheFinish(t)

CacheSpec == CacheInit /\ [][CacheNext]_vars


\* C9: for every condition string that parses and every state, evaluating
\* the AST the cache returns (get_or_parse, check_condition) gives the same
\* boolean as evaluating parse of the string, on a miss, on a hit and under
\* every interleaving of get_or_parse and clear_cache calls of the threads.
C9_CachedAstAgrees ==
    \A t \in Threads :
        (thr[t].pc = "done" /\ thr[t].op # "clear_cache" /\ thr[t].condition # <<>>) =>
            \A p \in {parse(thr[t].condition)} :
                p.ok =>
                    /\ IsSome(thr[t].ret) /\ thr[t].ret.some.ok
                    /\ IF thr[t].op = "check_condition"
                       THEN thr[t].ret.some.v = check(p.v, thr[t].st)
                       ELSE \A st \in CacheStates :
                                check(thr[t].ret.some.v, st) = check(p.v, st)

\* a check_condition answered from the cache (a hit) while the other thread
\* was inside clear_cache, with another string's AST in the cache
C9_Witness ==
    \E t, u \in Threads :
        /\ t # u
        /\ thr[t].pc = "done" /\ thr[t].op = "check_condition" /\ thr[t].hit
        /\ thr[u].op = "clear_cache" /\ thr[u].pc = "write_lock"
        /\ \E k \in DOMAIN cache : k # thr[t].condition

\* a get_or_parse that missed, parsed and inserted after the other thread
\* had cleared the cache between its lookup and its insert
C9_WitnessMiss ==
    \E t, u \in Threads :
        /\ t # u
        /\ thr[t].pc = "done" /\ thr[t].op = "get_or_parse" /\ ~thr[t].hit
        /\ IsSome(thr[t].ret) /\ thr[t].ret.some.ok
        /\ thr[u].op = "clear_cache" /\ thr[u].pc = "done"


(***************************************************************************)
(* The summary (simulator/engine.rs).                                      *)
(***************************************************************************)
\* the scan of judge_property over the levels in configuration order;
\* progress is value.min(10).max(0) in tenths
RECURSIVE judge_levels(_, _, _, _)
judge_levels(levels, i, prop, value) ==
    IF i > Len(levels) THEN None
    ELSE IF value >= levels[i].min
    THEN Some([property_type |-> prop, value |-> value, grade |-> levels[i].grade,
               text |-> levels[i].text, progress |-> Max(Min(value, 10), 0)])
    ELSE judge_levels(levels, i + 1, prop, value)

judge_property(judge_config, prop, value) ==
    IF prop \notin DOMAIN judge_config THEN None
    ELSE judge_levels(judge_config[prop], 1, prop, value)

\* Vec of the Some results, in order
RECURSIVE flatten_some(_)
flatten_some(opts) ==
    IF opts = <<>> THEN <<>>
    ELSE IF IsSome(Head(opts)) THEN <<Head(opts).some>> \o flatten_some(Tail(opts))
    ELSE flatten_some(Tail(opts))

get_summary_judges(s, judge_config) ==
    flatten_some(<<judge_property(judge_config, "HCHR", Max(s.hchr, s.chr)),
                   judge_property(judge_config, "HINT", Max(s.hint, s.int)),
                   judge_property(judge_config, "HSTR", Max(s.hstr, s.str_)),
                   judge_property(judge_config, "HMNY", Max(s.hmny, s.mny)),
                   judge_property(judge_config, "HSPR", Max(s.hspr, s.spr)),
                   judge_property(judge_config, "HAGE", Max(s.hage, s.age)),
                   judge_property(judge_config, "SUM", calculate_summary_score(s))>>)

TalentInfo(t) == [id |-> t.id, name |-> t.name, description |-> t.description, grade |-> t.grade]

\* final_talents.iter().filter_map(|id| self.talents.get(id).map(..))
RECURSIVE talent_infos(_, _)
talent_infos(final_talents, talents) ==
    IF final_talents = <<>> THEN <<>>
    ELSE IF Head(final_talents) \in DOMAIN talents
    THEN <<TalentInfo(talents[Head(final_talents)])>> \o talent_infos(Tail(final_talents), talents)
    ELSE talent_infos(Tail(final_talents), talents)

\* a lookup that ignores the caller's properties
prop_or_zero_ignored(properties, key) == 0

\* properties.get(key).unwrap_or(&0)
prop_or_zero(properties, key) == IF key \in DOMAIN properties THEN properties[key] ELSE 0

\* state.tlt.push for every id (no test for ids already present)
RECURSIVE push_all(_, _)
push_all(v, ids) == IF ids = <<>> THEN v ELSE push_all(Append(v, Head(ids)), Tail(ids))

\* the age talents: pushed when state.tlt does not contain them
RECURSIVE push_absent(_, _)
push_absent(v, ids) ==
    IF ids = <<>> THEN v
    ELSE push_absent(IF Contains(v, Head(ids)) THEN v ELSE Append(v, Head(ids)), Tail(ids))

YearContentTalent(r) ==
    [content_type |-> "TLT", description |-> r.description, grade |-> r.grade,
     name |-> Some(r.name)]

\* a content record that leaves the post_event text out
YearContentEvent_no_post(r) ==
    [content_type |-> "EVT", description |-> r.description, grade |-> r.grade,
     name |-> None]

\* description is format!("{}{}", description, post) when post_event is set
YearContentEvent(r) ==
    [content_type |-> "EVT",
     description |-> IF IsSome(r.post_event) THEN Append(r.description, r.post_event.some)
                     ELSE r.description,
     grade |-> r.grade, name |-> None]

\* GameSession::new (simulator/session.rs): the properties of a rendered
\* year, CHR, INT, STR, MNY, SPR, LIF, each looked up with unwrap_or(&0)
rendered_properties(entry) ==
    [k \in 1..6 |->
        LET key == <<"CHR", "INT", "STR", "MNY", "SPR", "LIF">>[k]
        IN  IF key \in DOMAIN entry.properties THEN entry.properties[key] ELSE 0]

TrajectoryEntry(age, entries, s) ==
    [age |-> age, content |-> entries, is_end |-> is_end(s),
     properties |-> get_properties_dict(s)]


(***************************************************************************)
(* The configurations and inputs simulate is run on.                       *)
(***************************************************************************)
\* years simulated before a run is cut off
MaxYears == 4

\* nested calls of process_event_chain or replace_talent the stack holds
StackDepth == 66

Config(talents, events, ages, achievements, judge_config) ==
    [talents |-> talents, events |-> events, ages |-> ages,
     achievements |-> achievements, judge_config |-> judge_config]

Input(talent_ids, properties, achieved_list) ==
    [talent_ids |-> talent_ids, properties |-> properties, achieved_list |-> achieved_list]

Props(chr, int, str_, mny) == [CHR |-> chr, INT |-> int, STR |-> str_, MNY |-> mny]

Fatal == Some(Effect(0, 0, 0, 0, 0, -10, 0, 0))

\* the simplest terminating run: one talent, one fatal event in every year
CfgBasic ==
    Config((1 :> TalentConfig(1, 0, 1, None, None, FALSE, None, None)),
           (999 :> EventConfig(999, FALSE, None, None, Fatal, None, None)),
           [age \in 0..MaxYears |-> AgeConfig(None, Some(<< <<999, 1>> >>))],
           <<>>, <<>>)

InBasic ==
    {Input(<<1>>, p, <<>>) : p \in {Props(5, 5, 5, 5), Props(1, 2, 3, 4), [CHR |-> 7]}}

\* talents with every kind of trigger limit and condition, events with
\* filters and branches, achievements at the three opportunities
LifeTalents ==
    (1 :> TalentConfig(1, 0, 1, None, Some(Effect(2, 0, 0, 0, 0, 0, 0, 0)), FALSE, None, None))
    @@ (2 :> TalentConfig(2, 1, 2, Some(AGE_GE_0),
                          Some(Effect(0, 0, 0, 1, 0, 0, 0, 0)), FALSE, None, None))
    @@ (3 :> TalentConfig(3, 0, 0, None, Some(Effect(0, 0, 0, 0, 0, -10, 0, 0)),
                          FALSE, None, None))
    @@ (4 :> TalentConfig(4, 0, 1, Some(BAD_NO_OP),
                          Some(Effect(1, 0, 0, 0, 0, 0, 0, 0)), FALSE, None, None))
    @@ (5 :> TalentConfig(5, 0, -1, None, None, FALSE, None, None))
    @@ (6 :> TalentConfig(6, 2, 2, None, None, FALSE, None, None))
    @@ (7 :> TalentConfig(7, 0, 1, None, Some(Effect(0, 0, 0, 0, 0, -1, 0, 0)),
                          FALSE, None, None))

LifeEvents ==
    (10 :> EventConfig(10, FALSE, None, None, Some(Effect(0, 0, 0, 0, 0, -1, 0, 0)),
                       None, None))
    @@ (11 :> EventConfig(11, FALSE, None, None, Some(Effect(1, 0, 0, 0, 0, 0, 0, 0)),
                          None, Some("post")))
    @@ (12 :> EventConfig(12, FALSE, Some(AGE_GE_0), Some(BAD_PAREN), None,
                          Some(<<EventBranch(CHR_GT_5, 13), EventBranch(BAD_NO_OP, 10),
                                 EventBranch(AGE_GE_0, 14)>>), Some("post")))
    @@ (13 :> EventConfig(13, TRUE, None, None, Some(Effect(0, -1, 0, 0, 0, 0, 0, 0)),
                          None, None))

LifeAges ==
    (0 :> AgeConfig(Some(<<2>>), Some(<< <<10, 1>>, <<11, 1>>, <<12, 1>> >>)))
    @@ (1 :> AgeConfig(None, Some(<< <<13, 1>>, <<14, 1>>, <<10, 1>>, <<12, 1>> >>)))
    @@ (2 :> AgeConfig(None, Some(<< <<10, 0>> >>)))
    @@ (3 :> AgeConfig(Some(<<6>>), Some(<< <<13, 1>>, <<14, 1>> >>)))

LifeAchievements ==
    (1 :> AchievementConfig(1, "START", CHR_GT_5))
    @@ (2 :> AchievementConfig(2, "TRAJECTORY", AGE_GE_0))
    @@ (3 :> AchievementConfig(3, "trajectory", AGE_GE_1))
    @@ (4 :> AchievementConfig(4, "SUMMARY", AGE_GE_0))
    @@ (5 :> AchievementConfig(5, "START", BAD_NO_OP))

LifeJudges ==
    ("HCHR" :> <<JudgeLevel(7, 2), JudgeLevel(4, 1), JudgeLevel(0, 0)>>)
    @@ ("SUM" :> <<JudgeLevel(60, 3), JudgeLevel(0, 0)>>)

CfgLife == Config(LifeTalents, LifeEvents, LifeAges, LifeAchievements, LifeJudges)

InLife ==
    {Input(t, Props(chr, 6, 7, 8), a) :
        t \in {<<1, 2>>, <<4, 6, 6>>, <<3, 5, 9>>, <<7, 1>>}, chr \in {4, 6},
        a \in {<<>>, << <<2>> >>, << <<>>, <<1, 3>> >>}}

MNY_GT_5 == <<"M", "N", "Y", ">", "5">>

STR_GT_5 == <<"S", "T", "R", ">", "5">>

\* levels handed to SimulationEngine::new in ascending order of min, and a
\* key whose only level lies above every value
OrderJudges ==
    ("HINT" :> <<JudgeLevel(0, 0), JudgeLevel(4, 1)>>)
    @@ ("HAGE" :> <<JudgeLevel(50, 3)>>)

\* talents and events whose conditions depend on the effects of the talents
\* and events before them: talent 2 on talent 1, the branch of event 30 on
\* its own effect, the include of event 32 on the talent added at age 0
CfgOrder ==
    Config((1 :> TalentConfig(1, 0, 1, None, Some(Effect(2, 0, 0, 0, 0, 0, 0, 0)),
                              FALSE, None, None))
           @@ (2 :> TalentConfig(2, 0, 1, Some(CHR_GT_5),
                                 Some(Effect(0, 1, 0, 0, 0, 0, 0, 0)), FALSE, None, None))
           @@ (3 :> TalentConfig(3, 0, 1, None, Some(Effect(0, 0, 2, 0, 0, 0, 0, 0)),
                                 FALSE, None, None)),
           (30 :> EventConfig(30, FALSE, None, None, Some(Effect(0, 0, 0, 2, 0, 0, 0, 0)),
                              Some(<<EventBranch(MNY_GT_5, 31)>>), Some("post")))
           @@ (31 :> EventConfig(31, FALSE, None, None,
                                 Some(Effect(0, 0, 0, 0, 0, -1, 0, 0)), None, None))
           @@ (32 :> EventConfig(32, FALSE, Some(STR_GT_5), None,
                                 Some(Effect(0, 0, 0, 0, 0, -1, 0, 0)), None, None))
           @@ (33 :> EventConfig(33, FALSE, None, None, Some(Effect(0, 0, 0, 3, 0, 0, 0, 0)),
                                 Some(<<EventBranch(AGE_GE_0, 34)>>), None))
           @@ (34 :> EventConfig(34, FALSE, None, Some(MNY_GT_5),
                                 Some(Effect(0, 0, 0, -1, 0, -1, 0, 0)), None, None)),
           (0 :> AgeConfig(Some(<<3>>), Some(<< <<30, 1>>, <<32, 1>>, <<33, 1>> >>)))
           @@ (1 :> AgeConfig(None, Some(<< <<31, 1>>, <<34, 1>> >>))),
           (1 :> AchievementConfig(1, "TRAJECTORY", AGE_GE_0))
           @@ (2 :> AchievementConfig(2, "TRAJECTORY", AGE_GE_0)),
           OrderJudges)

InOrder == {Input(t, Props(4, 4, 4, 4), <<>>) : t \in {<<1, 2>>, <<2, 1>>}}

\* a fatal event next to an event whose branches lead back to it
CfgCycle ==
    Config(<<>>,
           (10 :> EventConfig(10, FALSE, None, None, Fatal, None, None))
           @@ (20 :> EventConfig(20, FALSE, None, None, None,
                                 Some(<<EventBranch(AGE_GE_0, 21)>>), None))
           @@ (21 :> EventConfig(21, TRUE, None, None, None,
                                 Some(<<EventBranch(AGE_GE_0, 20)>>), None)),
           [age \in 0..MaxYears |-> AgeConfig(None, Some(<< <<10, 1>>, <<20, 1>> >>))],
           <<>>, <<>>)

InCycle == {Input(<<>>, [CHR |-> 5], <<>>)}

\* talents replaced by explicit id and by grade, with exclusions
ReplaceTalents ==
    (1 :> TalentConfig(1, 0, 1, None, None, FALSE, None,
                       Some(TalentReplacement(None, Some((<<"2">> :> 1) @@ (<<"3">> :> 1)
                                                        @@ (<<"x">> :> 1))))))
    @@ (2 :> TalentConfig(2, 1, 1, None, None, FALSE, Some(<<4>>), None))
    @@ (3 :> TalentConfig(3, 0, 1, None, None, FALSE, None,
                          Some(TalentReplacement(Some((<<"1">> :> 1)), None))))
    @@ (4 :> TalentConfig(4, 0, 1, None, None, FALSE, None, None))
    @@ (5 :> TalentConfig(5, 1, 1, None, None, TRUE, None, None))

CfgReplace ==
    Config(ReplaceTalents,
           (10 :> EventConfig(10, FALSE, None, None, Fatal, None, None)),
           (0 :> AgeConfig(None, Some(<< <<10, 1>> >>))),
           <<>>, <<>>)

InReplace == {Input(t, Props(5, 5, 5, 5), <<>>) : t \in {<<1>>, <<1, 4>>, <<3, 4>>, <<4, 1>>}}

\* two talents that replace each other
CfgReplaceCycle ==
    Config((1 :> TalentConfig(1, 0, 1, None, None, FALSE, None,
                              Some(TalentReplacement(None, Some((<<"2">> :> 1))))))
           @@ (2 :> TalentConfig(2, 0, 1, None, None, FALSE, None,
                                 Some(TalentReplacement(None, Some((<<"1">> :> 1)))))),
           (10 :> EventConfig(10, FALSE, None, None, Fatal, None, None)),
           (0 :> AgeConfig(None, Some(<< <<10, 1>> >>))),
           <<>>, <<>>)

InReplaceCycle == {Input(<<1>>, Props(5, 5, 5, 5), <<>>)}

\* a talent whose replacement names an id the catalogue does not hold, next
\* to a talent that excludes that id
CfgReplaceMissing ==
    Config((1 :> TalentConfig(1, 0, 1, None, None, FALSE, None,
                              Some(TalentReplacement(None, Some((<<"9">> :> 1))))))
           @@ (4 :> TalentConfig(4, 0, 1, None, None, FALSE, Some(<<9>>), None)),
           (10 :> EventConfig(10, FALSE, None, None, Fatal, None, None)),
           (0 :> AgeConfig(None, Some(<< <<10, 1>> >>))),
           <<>>, <<>>)

InReplaceMissing == {Input(t, Props(5, 5, 5, 5), <<>>) : t \in {<<1>>, <<4, 1>>, <<1, 4>>}}

SimRuns ==
    ({CfgBasic} \X InBasic) \cup ({CfgLife} \X InLife) \cup ({CfgCycle} \X InCycle)
    \cup ({CfgReplace} \X InReplace) \cup ({CfgReplaceCycle} \X InReplaceCycle)
    \cup ({CfgOrder} \X InOrder) \cup ({CfgReplaceMissing} \X InReplaceMissing)


(***************************************************************************)
(* SimSpec: SimulationEngine::simulate, one step per call of a component   *)
(* (one level of replace_talent, one talent pass, one talent effect, one   *)
(* achievement sweep, one draw, one event of a chain).                     *)
(***************************************************************************)
SimInit ==
    /\ \E run \in SimRuns : cfg = run[1] /\ inp = run[2]
    /\ pc = "apply_replacements"
    /\ new_talents = inp.talent_ids
    /\ replacements = <<>>
    /\ repl = [i |-> 1, talent_id |-> 0, existing |-> <<>>, depth |-> 0]
    /\ state = <<>>
    /\ trigger_counts = <<>>
    /\ current_achieved = <<>>
    /\ all_new_achievements = <<>>
    /\ trajectory = <<>>
    /\ pending = <<>>
    /\ cont = ""
    /\ content = <<>>
    /\ year_age = -1
    /\ chain = [event_id |-> 0, depth |-> 0]
    /\ result = None
    /\ log = <<>>
    /\ fired = <<>>
    /\ cache = <<>>
    /\ seen = <<>> /\ calls = 0
    /\ FnIdle /\ CacheIdle

SimFrame == UNCHANGED <<cfg, inp, seen, calls, fnVars, cacheVars>>

\* apply_replacements: the loop calls replace_talent for position repl.i
ReplaceCall ==
    /\ pc = "apply_replacements"
    /\ repl.i <= Len(inp.talent_ids)
    /\ repl' = [i |-> repl.i, talent_id |-> inp.talent_ids[repl.i],
                existing |-> new_talents, depth |-> 1]
    /\ pc' = "replace_talent"
    /\ UNCHANGED <<state, cache, trigger_counts, current_achieved, all_new_achievements,
                   trajectory, new_talents, replacements, pending, cont, content,
                   year_age, chain, result, log, fired>>
    /\ SimFrame

\* one level of replace_talent: it returns, or it draws and calls itself
ReplaceTalent ==
    /\ pc = "replace_talent"
    /\ \E o \in replace_level(repl.talent_id, repl.existing, cfg.talents) :
          IF o.done
          THEN \E r \in {apply_replacement_at(inp.talent_ids, repl.i, o.id, new_talents,
                                              replacements, cfg.talents)} :
                  /\ new_talents' = r.new_talents
                  /\ replacements' = r.replacements
                  /\ repl' = [i |-> repl.i + 1, talent_id |-> 0, existing |-> <<>>,
                              depth |-> 0]
                  /\ pc' = "apply_replacements"
                  /\ log' = Append(log, [opportunity |-> "Replace", i |-> repl.i,
                                         replaced_id |-> o.id])
          ELSE IF repl.depth >= StackDepth
          THEN /\ pc' = "overflow"
               /\ UNCHANGED <<new_talents, replacements, repl, log>>
          ELSE /\ repl' = [repl EXCEPT !.talent_id = o.id,
                                       !.existing = Append(repl.existing, o.id),
                                       !.depth = repl.depth + 1]
               /\ log' = Append(log, [opportunity |-> "Draw", i |-> repl.i,
                                      existing |-> repl.existing, id |-> o.id,
                                      drawn |-> o.drawn])
               /\ UNCHANGED <<new_talents, replacements, pc>>
    /\ UNCHANGED <<state, cache, trigger_counts, current_achieved, all_new_achievements,
                   trajectory, pending, cont, content, year_age, chain, result,
                   fired>>
    /\ SimFrame

\* a seeding that goes on with the trigger counts it finds
Seed_counts_kept ==
    /\ pc = "apply_replacements"
    /\ repl.i > Len(inp.talent_ids)
    /\ \E final_talents \in {truncate(new_talents, Len(inp.talent_ids))} :
          /\ new_talents' = final_talents
          /\ state' = [new(prop_or_zero(inp.properties, "CHR"),
                           prop_or_zero(inp.properties, "INT"),
                           prop_or_zero(inp.properties, "STR"),
                           prop_or_zero(inp.properties, "MNY"), 5, 1)
                         EXCEPT !.tlt = push_all(<<>>, final_talents)]
    /\ UNCHANGED trigger_counts
    /\ cont' = "start_achievements"
    /\ pc' = "do_talents"
    /\ UNCHANGED <<cache, current_achieved, all_new_achievements, trajectory,
                   replacements, repl, pending, content, year_age, chain, result, log,
                   fired>>
    /\ SimFrame

\* the replacements are done: truncate, create the initial state, set the
\* talents, empty trigger counts
Seed ==
    /\ pc = "apply_replacements"
    /\ repl.i > Len(inp.talent_ids)
    /\ \E final_talents \in {truncate(new_talents, Len(inp.talent_ids))} :
          /\ new_talents' = final_talents
          /\ state' = [new(prop_or_zero(inp.properties, "CHR"),
                           prop_or_zero(inp.properties, "INT"),
                           prop_or_zero(inp.properties, "STR"),
                           prop_or_zero(inp.properties, "MNY"), 5, 1)
                         EXCEPT !.tlt = push_all(<<>>, final_talents)]
    /\ trigger_counts' = <<>>
    /\ cont' = "start_achievements"
    /\ pc' = "do_talents"
    /\ UNCHANGED <<cache, current_achieved, all_new_achievements, trajectory,
                   replacements, repl, pending, content, year_age, chain, result, log,
                   fired>>
    /\ SimFrame

\* the triggers a pass emitted for one talent
Emitted(results, id) == Cardinality({i \in 1..Len(results) : results[i].talent_id = id})

Emit(f, results) ==
    [id \in DOMAIN f \cup {results[i].talent_id : i \in 1..Len(results)} |->
        (IF id \in DOMAIN f THEN f[id] ELSE 0) + Emitted(results, id)]

\* a do_talents that returns without applying the effects
DoTalents_no_effects ==
    /\ pc = "do_talents"
    /\ \E r \in {process_talents(state, cfg.talents, trigger_counts, cache)} :
          /\ pending' = <<>>
          /\ trigger_counts' = r.trigger_counts
          /\ cache' = r.cache
          /\ fired' = Emit(fired, r.results)
          /\ log' = Append(log, [opportunity |-> "Talents", caller |-> cont,
                                 before |-> state, counts |-> trigger_counts,
                                 results |-> r.results])
          /\ pc' = cont
    /\ UNCHANGED <<state, current_achieved, all_new_achievements, trajectory,
                   new_talents, replacements, repl, cont, content, year_age, chain,
                   result>>
    /\ SimFrame

\* do_talents: the call of process_talents
DoTalents ==
    /\ pc = "do_talents"
    /\ \E r \in {process_talents(state, cfg.talents, trigger_counts, cache)} :
          /\ pending' = r.results
          /\ trigger_counts' = r.trigger_counts
          /\ cache' = r.cache
          /\ fired' = Emit(fired, r.results)
          /\ log' = Append(log, [opportunity |-> "Talents", caller |-> cont,
                                 before |-> state, counts |-> trigger_counts,
                                 results |-> r.results])
          /\ pc' = IF r.results = <<>> THEN cont ELSE "talent_effects"
    /\ UNCHANGED <<state, current_achieved, all_new_achievements, trajectory,
                   new_talents, replacements, repl, cont, content, year_age, chain,
                   result>>
    /\ SimFrame

\* do_talents: the loop body for one result
ApplyTalentEffect ==
    /\ pc = "talent_effects"
    /\ content' = Append(content, YearContentTalent(Head(pending)))
    /\ state' \in IF IsSome(Head(pending).effect)
                  THEN apply_talent_effect(state, Head(pending).effect.some)
                  ELSE {state}
    /\ pending' = Tail(pending)
    /\ pc' = IF Tail(pending) = <<>> THEN cont ELSE "talent_effects"
    /\ UNCHANGED <<cache, trigger_counts, current_achieved, all_new_achievements,
                   trajectory, new_talents, replacements, repl, cont, year_age, chain,
                   result, log, fired>>
    /\ SimFrame

\* the START sweep and its unlocks
StartAchievements ==
    /\ pc = "start_achievements"
    /\ \E order \in Orders(DOMAIN cfg.achievements) :
          \E r \in {check_achievements("Start", state, inp.achieved_list,
                                       cfg.achievements, order, cache)} :
              /\ current_achieved' = unlock_all(r.new, inp.achieved_list)
              /\ all_new_achievements' = r.new
              /\ cache' = r.cache
              /\ log' = Append(log, [opportunity |-> "Start", new |-> r.new])
    /\ trajectory' = <<>>
    /\ pc' = "while"
    /\ UNCHANGED <<state, trigger_counts, new_talents, replacements, repl, pending,
                   cont, content, year_age, chain, result, fired>>
    /\ SimFrame


\* while !state.is_end(): simulate_year up to the call of do_talents
YearBegin ==
    /\ pc = "while"
    /\ ~is_end(state)
    /\ Len(trajectory) < MaxYears
    /\ \E s1 \in change(state, "AGE", 1) :
          /\ year_age' = s1.age
          /\ IF s1.age \in DOMAIN cfg.ages
             THEN /\ state' = IF IsSome(cfg.ages[s1.age].talents)
                              THEN [s1 EXCEPT !.tlt = push_absent(s1.tlt,
                                                         cfg.ages[s1.age].talents.some)]
                              ELSE s1
                  /\ cont' = IF IsSome(cfg.ages[s1.age].events)
                             THEN "do_events" ELSE "year_end"
             ELSE /\ state' = s1
                  /\ cont' = "year_end"
    /\ content' = <<>>
    /\ pc' = "do_talents"
    /\ UNCHANGED <<cache, trigger_counts, current_achieved, all_new_achievements,
                   trajectory, new_talents, replacements, repl, pending, chain, result,
                   log, fired>>
    /\ SimFrame

\* a while test that goes back to the START sweep when it fails
LoopExit_restart ==
    /\ pc = "while"
    /\ is_end(state)
    /\ pc' = "start_achievements"
    /\ UNCHANGED <<state, cache, trigger_counts, current_achieved, all_new_achievements,
                   trajectory, new_talents, replacements, repl, pending, cont, content,
                   year_age, chain, result, log, fired>>
    /\ SimFrame

\* the while test fails before any year: the initial talents ended the life
LoopExit ==
    /\ pc = "while"
    /\ is_end(state)
    /\ pc' = "summary"
    /\ UNCHANGED <<state, cache, trigger_counts, current_achieved, all_new_achievements,
                   trajectory, new_talents, replacements, repl, pending, cont, content,
                   year_age, chain, result, log, fired>>
    /\ SimFrame

\* a do_events whose year is dropped when select_event returns None
DoEventsPick_year_dropped(id) ==
    /\ pc = "do_events"
    /\ \E o \in select_event(cfg.ages[year_age].events.some, cfg.events, state, cache) :
          /\ o.id = id
          /\ cache' = o.cache
    /\ IF IsSome(id)
       THEN /\ chain' = [event_id |-> id.some, depth |-> 1]
            /\ pc' = "event_chain"
       ELSE /\ pc' = "while"
            /\ UNCHANGED chain
    /\ UNCHANGED <<state, trigger_counts, current_achieved, all_new_achievements,
                   trajectory, new_talents, replacements, repl, pending, cont, content,
                   year_age, result, log, fired>>
    /\ SimFrame

\* do_events: select_event returns id (None: no event this year)
DoEventsPick(id) ==
    /\ pc = "do_events"
    /\ \E o \in select_event(cfg.ages[year_age].events.some, cfg.events, state, cache) :
          /\ o.id = id
          /\ cache' = o.cache
    /\ IF IsSome(id)
       THEN /\ chain' = [event_id |-> id.some, depth |-> 1]
            /\ pc' = "event_chain"
       ELSE /\ pc' = "year_end"
            /\ UNCHANGED chain
    /\ UNCHANGED <<state, trigger_counts, current_achieved, all_new_achievements,
                   trajectory, new_talents, replacements, repl, pending, cont, content,
                   year_age, result, log, fired>>
    /\ SimFrame

\* the ids a pool names, as results of select_event
PoolResults(event_pool) == {None} \cup {Some(event_pool[i][1]) : i \in 1..Len(event_pool)}

DoEvents ==
    /\ pc = "do_events"
    /\ \E id \in PoolResults(cfg.ages[year_age].events.some) : DoEventsPick(id)

\* process_event_chain for chain.event_id: record, describe, apply the
\* effect, and call itself on the next event
EventChain ==
    /\ pc = "event_chain"
    /\ \E r \in {process_event(chain.event_id, cfg.events, state, cache)} :
          /\ cache' = r.cache
          /\ IF ~IsSome(r.res)
             THEN /\ pc' = "year_end"
                  /\ UNCHANGED <<state, content, chain, log>>
             ELSE /\ content' = Append(content, YearContentEvent(r.res.some))
                  /\ \E s1 \in {[state EXCEPT !.evt = push_absent(state.evt,
                                                         <<chain.event_id>>)]} :
                        state' \in IF IsSome(r.res.some.effect)
                                   THEN apply_event_effect(s1, r.res.some.effect.some)
                                   ELSE {s1}
                  /\ log' = Append(log, [opportunity |-> "Event",
                                         event_id |-> chain.event_id,
                                         depth |-> chain.depth,
                                         before |-> state,
                                         next_event_id |-> r.res.some.next_event_id,
                                         content |-> YearContentEvent(r.res.some),
                                         after |-> state'])
                  /\ IF ~IsSome(r.res.some.next_event_id)
                     THEN pc' = "year_end" /\ UNCHANGED chain
                     ELSE IF chain.depth >= StackDepth
                     THEN pc' = "overflow" /\ UNCHANGED chain
                     ELSE /\ chain' = [event_id |-> r.res.some.next_event_id.some,
                                       depth |-> chain.depth + 1]
                          /\ pc' = "event_chain"
    /\ UNCHANGED <<trigger_counts, current_achieved, all_new_achievements, trajectory,
                   new_talents, replacements, repl, pending, cont, year_age, result,
                   fired>>
    /\ SimFrame

\* simulate_year returns its entry; the TRAJECTORY sweep and its unlocks;
\* break when the entry is the last
YearEnd ==
    /\ pc = "year_end"
    /\ trajectory' = Append(trajectory, TrajectoryEntry(year_age, content, state))
    /\ \E order \in Orders(DOMAIN cfg.achievements) :
          \E r \in {check_achievements("Trajectory", state, current_achieved,
                                       cfg.achievements, order, cache)} :
              /\ current_achieved' = unlock_all(r.new, current_achieved)
              /\ all_new_achievements' = all_new_achievements \o r.new
              /\ cache' = r.cache
              /\ log' = Append(log, [opportunity |-> "Trajectory", new |-> r.new,
                                     lif |-> state.lif, after |-> state])
    /\ pc' = IF is_end(state) THEN "summary" ELSE "while"
    /\ UNCHANGED <<state, trigger_counts, new_talents, replacements, repl, pending,
                   cont, content, year_age, chain, result, fired>>
    /\ SimFrame

SimulationResult(new_achievements) ==
    [trajectory |-> trajectory,
     summary |-> [total_score |-> calculate_summary_score(state),
                  judges |-> get_summary_judges(state, cfg.judge_config),
                  talents |-> talent_infos(new_talents, cfg.talents)],
     new_achievements |-> new_achievements,
     triggered_events |-> state.evt,
     replacements |-> replacements]

\* the SUMMARY sweep (no unlocks), the summary, the result
Summary ==
    /\ pc = "summary"
    /\ \E order \in Orders(DOMAIN cfg.achievements) :
          \E r \in {check_achievements("Summary", state, current_achieved,
                                       cfg.achievements, order, cache)} :
              /\ all_new_achievements' = all_new_achievements \o r.new
              /\ cache' = r.cache
              /\ log' = Append(log, [opportunity |-> "Summary", new |-> r.new])
              /\ result' = Some(Ok(SimulationResult(all_new_achievements \o r.new)))
    /\ pc' = "done"
    /\ UNCHANGED <<state, trigger_counts, current_achieved, trajectory, new_talents,
                   replacements, repl, pending, cont, content, year_age, chain, fired>>
    /\ SimFrame

SimNext ==
    \/ ReplaceCall \/ ReplaceTalent \/ Seed
    \/ DoTalents \/ ApplyTalentEffect
    \/ StartAchievements
    \/ YearBegin \/ LoopExit
    \/ DoEvents \/ EventChain
    \/ YearEnd
    \/ Summary

SimSpec == SimInit /\ [][SimNext]_vars


\* the draw of an event that ends the life: no branch leads on from it and
\* its effect brings LIF below 1
KillsNow(id) ==
    /\ id \in DOMAIN cfg.events
    /\ ~IsSome(cfg.events[id].branch)
    /\ IsSome(cfg.events[id].effect)
    /\ state.lif + cfg.events[id].effect.some.lif < 1

DrawFatal ==
    /\ pc = "do_events"
    /\ \E id \in PoolResults(cfg.ages[year_age].events.some) :
          IsSome(id) /\ KillsNow(id.some) /\ DoEventsPick(id)

\* simulate runs on: every step that can be taken is taken, and a draw
\* that is possible again and again comes up (rng is fair)
SimFairSpec == SimSpec /\ WF_vars(SimNext) /\ SF_vars(DrawFatal)

\* C3: every talent of the catalogue has triggered at most max_triggers
\* times, by the trigger counter and by the triggers the passes emitted.
C3_TriggerLimit ==
    \A t \in DOMAIN cfg.talents :
        /\ t \in DOMAIN trigger_counts => trigger_counts[t] <= cfg.talents[t].max_triggers
        /\ t \in DOMAIN fired => fired[t] <= cfg.talents[t].max_triggers

\* a talent limited to two triggers has triggered in two years and was
\* passed over in the pass of a third year
C3_Witness ==
    /\ pc = "year_end" /\ Len(trajectory) >= 2
    /\ 2 \in DOMAIN fired /\ fired[2] = 2 /\ cfg.talents[2].max_triggers = 2
    /\ Contains(state.tlt, 2)

\* C4: no achievement id is in new_achievements twice, over the START
\* sweep, the TRAJECTORY sweeps and the SUMMARY sweep, and no id the caller
\* passed as achieved is in it.
C4_AchievementsOnce ==
    /\ NoDup(all_new_achievements)
    /\ \A i \in 1..Len(all_new_achievements) :
          ~is_achieved(all_new_achievements[i], inp.achieved_list)
    /\ (IsSome(result) /\ result.some.ok) =>
          result.some.v.new_achievements = all_new_achievements

\* a run of two years that awarded at START, in both years and at SUMMARY
C4_Witness ==
    /\ pc = "done" /\ Len(trajectory) = 2
    /\ Range(all_new_achievements) = {1, 2, 3, 4}

\* a run in which the caller had achieved ids the sweeps would award
C4_WitnessAchieved ==
    /\ pc = "done" /\ Len(trajectory) = 2
    /\ inp.achieved_list = << <<>>, <<1, 3>> >>
    /\ Range(all_new_achievements) = {2, 4}

\* the condition strings a finished run has certainly evaluated: those of
\* the seeded talents that may trigger, and of the START achievements the
\* caller had not achieved
EvaluatedConditions ==
    {cfg.talents[t].condition.some :
        t \in {u \in Range(new_talents) \cap DOMAIN cfg.talents :
                  cfg.talents[u].max_triggers > 0 /\ IsSome(cfg.talents[u].condition)}}
    \cup {cfg.achievements[a].condition :
            a \in {b \in DOMAIN cfg.achievements :
                      /\ Opportunity_from_str(cfg.achievements[b].opportunity) = Some("Start")
                      /\ ~is_achieved(cfg.achievements[b].id, inp.achieved_list)}}

\* C5: when a condition string evaluated during the run does not parse,
\* simulate returns the InvalidCondition error, not a SimulationResult.
C5_InvalidConditionAborts ==
    (pc = "done" /\ \E c \in EvaluatedConditions : c # Empty /\ ~parse(c).ok) =>
        (IsSome(result) /\ result.some = Err)

\* in a year with events, a fatal event can be drawn; every year has events
YearCanKill ==
    /\ cont # "year_end"
    /\ pc = "do_events" =>
          \E o \in select_event(cfg.ages[year_age].events.some, cfg.events, state, cache) :
              IsSome(o.id) /\ KillsNow(o.id.some)

\* the run was cut off after MaxYears years
CutOff == pc = "while" /\ ~is_end(state) /\ Len(trajectory) >= MaxYears

\* the year loop is entered
LoopReached == pc = "while"

\* C10: when the year loop is entered and every year can draw an event whose
\* effect brings LIF below 1, then under fair random selection simulate
\* eventually leaves the year loop and returns a result.
C10_EventuallyReturns ==
    ([]YearCanKill /\ <>LoopReached) => <>(pc = "done" \/ CutOff)

\* the runs that never return are those whose recursion exhausts the stack
C10_ReturnsUnlessOverflow ==
    ([]YearCanKill /\ <>LoopReached) => <>(pc = "done" \/ CutOff \/ pc = "overflow")


\* the replace_talent results recorded so far
Replaced == {e \in Range(log) : e.opportunity = "Replace"}

\* the replacements are done and the accumulator is pruned
ReplacementsDone == pc \notin {"apply_replacements", "replace_talent", "overflow"}

\* C15: once the replacements have terminated, the final talent list is as
\* long as the input, and position i holds what replace_talent returned for
\* the input id at i: that id itself, or the id it was replaced by.
C15_ReplacementKeepsLength ==
    ReplacementsDone =>
        /\ Len(new_talents) = Len(inp.talent_ids)
        /\ \A i \in 1..Len(inp.talent_ids) :
              \E e \in Replaced : e.i = i /\ new_talents[i] = e.replaced_id
        /\ \A i \in 1..Len(inp.talent_ids) :
              new_talents[i] # inp.talent_ids[i] =>
                  /\ inp.talent_ids[i] \in DOMAIN cfg.talents
                  /\ IsSome(cfg.talents[inp.talent_ids[i]].replacement)

\* talent 1 was replaced by 3 (2 is excluded by the 4 present), 4 was kept
C15_Witness ==
    /\ pc = "done" /\ inp.talent_ids = <<1, 4>> /\ new_talents = <<3, 4>>
    /\ Len(replacements) = 1


\* the log entries of one kind, in order
LogOf(kind) == SelectSeq(log, LAMBDA e : e.opportunity = kind)

\* C11: every simulate call that returns Ok yields a non-empty trajectory
\* whose last entry has is_end = true.
C11_TrajectoryEndsEnded ==
    (IsSome(result) /\ result.some.ok) =>
        /\ Len(result.some.v.trajectory) >= 1
        /\ result.some.v.trajectory[Len(result.some.v.trajectory)].is_end

\* the trajectory is empty only when the initial talent pass ended the life,
\* and a trajectory that is not empty ends with is_end = true
TrajectoryEmptyOnlyDeadAtStart ==
    (IsSome(result) /\ result.some.ok) =>
        IF result.some.v.trajectory = <<>>
        THEN state.lif < 1 /\ state.age = -1
        ELSE result.some.v.trajectory[Len(result.some.v.trajectory)].is_end

\* C12: a trajectory entry has is_end = true iff lif < 1 at the end of its
\* year, no entry follows an entry with is_end = true, no year tick is run
\* on a state with lif < 1, and the loop is left exactly when lif < 1.
C12_LoopLeftIffEnded ==
    /\ Len(LogOf("Trajectory")) = Len(trajectory)
    /\ \A i \in 1..Len(trajectory) :
          /\ trajectory[i].is_end <=> LogOf("Trajectory")[i].lif < 1
          /\ i < Len(trajectory) => ~trajectory[i].is_end
    /\ \A e \in Range(log) :
          (e.opportunity = "Talents" /\ e.caller # "start_achievements") =>
              e.before.lif >= 1
    /\ pc \in {"summary", "done"} => state.lif < 1
    /\ (trajectory # <<>> /\ trajectory[Len(trajectory)].is_end) =>
          pc \in {"summary", "done"}
    /\ (pc \in {"summary", "done"} /\ trajectory # <<>>) =>
          trajectory[Len(trajectory)].is_end

\* a life that went on after its first year and ended in a later one with
\* lif exactly 0
C12_Witness ==
    /\ pc = "summary" /\ Len(trajectory) >= 2 /\ state.lif = 0
    /\ ~trajectory[1].is_end /\ trajectory[Len(trajectory)].is_end


\* the caller's value of a property, 0 when the caller left it out
InputProp(key) == IF key \in DOMAIN inp.properties THEN inp.properties[key] ELSE 0

\* event e ends a life of 1 at once: its effect brings LIF below 1, nothing
\* filters it and no branch leads on
FatalAtStart(e) ==
    /\ e \in DOMAIN cfg.events
    /\ IsSome(cfg.events[e].effect) /\ 1 + cfg.events[e].effect.some.lif < 1
    /\ ~cfg.events[e].no_random
    /\ ~IsSome(cfg.events[e].include) /\ ~IsSome(cfg.events[e].exclude)
    /\ ~IsSome(cfg.events[e].branch)

\* the only event drawable at age 0 is fatal, no talent changes a property,
\* the achievement catalogue is empty
OnlyFatalAtZero ==
    /\ DOMAIN cfg.achievements = {}
    /\ \A t \in DOMAIN cfg.talents : ~IsSome(cfg.talents[t].effect)
    /\ 0 \in DOMAIN cfg.ages /\ IsSome(cfg.ages[0].events)
    /\ Len(cfg.ages[0].events.some) = 1
    /\ cfg.ages[0].events.some[1][2] > 0
    /\ FatalAtStart(cfg.ages[0].events.some[1][1])

\* C16: in a run where the only event drawable at age 0 brings LIF below 1
\* and no talent changes any property, the trajectory has exactly one entry
\* (age 0, is_end = true), triggered_events is exactly that event id,
\* new_achievements is empty and total_score = (CHR + INT + STR + MNY + 5) * 2.
C16_SimplestRun ==
    (pc = "done" /\ OnlyFatalAtZero) =>
        /\ result.some.ok
        /\ Len(result.some.v.trajectory) = 1
        /\ result.some.v.trajectory[1].age = 0
        /\ result.some.v.trajectory[1].is_end
        /\ result.some.v.triggered_events = <<cfg.ages[0].events.some[1][1]>>
        /\ result.some.v.new_achievements = <<>>
        /\ result.some.v.summary.total_score =
              (InputProp("CHR") + InputProp("INT") + InputProp("STR")
               + InputProp("MNY") + 5) * 2

\* the run of the basic configuration on four different property values
C16_Witness ==
    /\ pc = "done" /\ cfg = CfgBasic /\ inp.properties = Props(1, 2, 3, 4)
    /\ result.some.v.summary.total_score = 30
    /\ result.some.v.triggered_events = <<999>>

\* the ids a talent pass triggers when each effect is applied before the
\* next talent of s.tlt is examined
RECURSIVE SequentialPass(_, _, _, _)
SequentialPass(s, talents, i, counts) ==
    IF i > Len(s.tlt) THEN <<>>
    ELSE IF \/ s.tlt[i] \notin DOMAIN talents
            \/ count_of(counts, s.tlt[i]) >= talents[s.tlt[i]].max_triggers
            \/ /\ IsSome(talents[s.tlt[i]].condition)
               /\ ~Holds(talents[s.tlt[i]].condition.some, s)
    THEN SequentialPass(s, talents, i + 1, counts)
    ELSE The({<<s.tlt[i]>> \o SequentialPass(s1, talents, i + 1, count_incr(counts, s.tlt[i])) :
                 s1 \in {IF IsSome(talents[s.tlt[i]].effect)
                         THEN CHOOSE s2 \in apply_talent_effect(s, talents[s.tlt[i]].effect.some) : TRUE
                         ELSE s}})

\* the ids of the trigger results of a pass
ResultIds(results) == [i \in 1..Len(results) |-> results[i].talent_id]

\* C17: within one talent pass each triggered talent's effect is applied
\* before the next talent of state.tlt is examined: the talents a pass
\* triggers are those whose conditions hold on the state that includes the
\* deltas of the talents that fired before them in the pass.
C17_LaterTalentsSeeEarlierEffects ==
    \A e \in Range(LogOf("Talents")) :
        ResultIds(e.results) = SequentialPass(e.before, cfg.talents, 1, e.counts)

\* the talents a pass triggers are those whose conditions hold on the state
\* the pass started with
RECURSIVE SnapshotPass(_, _, _, _)
SnapshotPass(s, talents, i, counts) ==
    IF i > Len(s.tlt) THEN <<>>
    ELSE IF \/ s.tlt[i] \notin DOMAIN talents
            \/ count_of(counts, s.tlt[i]) >= talents[s.tlt[i]].max_triggers
            \/ /\ IsSome(talents[s.tlt[i]].condition)
               /\ ~Holds(talents[s.tlt[i]].condition.some, s)
    THEN SnapshotPass(s, talents, i + 1, counts)
    ELSE <<s.tlt[i]>> \o SnapshotPass(s, talents, i + 1, count_incr(counts, s.tlt[i]))

TalentsSeePassStart ==
    \A e \in Range(LogOf("Talents")) :
        ResultIds(e.results) = SnapshotPass(e.before, cfg.talents, 1, e.counts)


\* the child the branches select on state s: the target of the first branch
\* whose condition holds
RECURSIVE FirstMatch(_, _, _)
FirstMatch(branches, i, s) ==
    IF i > Len(branches) THEN None
    ELSE IF Holds(branches[i].condition, s) THEN Some(branches[i].event_id)
    ELSE FirstMatch(branches, i + 1, s)

\* the states the effect of a logged event leaves
AfterEventEffect(e) ==
    IF IsSome(cfg.events[e.event_id].effect)
    THEN apply_event_effect(e.before, cfg.events[e.event_id].effect.some)
    ELSE {e.before}

\* the next logged event is the child of event k of the log
ChildFollows(k) ==
    /\ IsSome(log[k].next_event_id) /\ k < Len(log)
    /\ log[k + 1].opportunity = "Event" /\ log[k + 1].depth = log[k].depth + 1

\* C18: in an event chain the parent's effect is applied before the branch
\* conditions that select its child are evaluated and before the child's
\* effect is applied.
C18_ParentEffectBeforeChild ==
    \A k \in 1..Len(log) :
        log[k].opportunity = "Event" =>
            /\ IsSome(cfg.events[log[k].event_id].branch) =>
                  \E post \in AfterEventEffect(log[k]) :
                      log[k].next_event_id =
                          FirstMatch(cfg.events[log[k].event_id].branch.some, 1, post)
            /\ ChildFollows(k) =>
                  /\ log[k + 1].event_id = log[k].next_event_id.some
                  /\ log[k + 1].before.evt = log[k].after.evt
                  /\ [log[k + 1].before EXCEPT !.evt = <<>>] \in
                        {[post EXCEPT !.evt = <<>>] : post \in AfterEventEffect(log[k])}

\* the child is selected on the state before the parent's effect, and the
\* child's effect is applied after the parent's
ChildSelectedBeforeParentEffect ==
    \A k \in 1..Len(log) :
        log[k].opportunity = "Event" =>
            /\ IsSome(cfg.events[log[k].event_id].branch) =>
                  log[k].next_event_id =
                      FirstMatch(cfg.events[log[k].event_id].branch.some, 1, log[k].before)
            /\ ChildFollows(k) =>
                  /\ log[k + 1].event_id = log[k].next_event_id.some
                  /\ log[k + 1].before = log[k].after

\* the states the effects of the trigger results from position i on leave
RECURSIVE AfterTalentEffects(_, _, _)
AfterTalentEffects(s, results, i) ==
    IF i > Len(results) THEN {s}
    ELSE UNION {AfterTalentEffects(s1, results, i + 1) :
                   s1 \in IF IsSome(results[i].effect)
                          THEN apply_talent_effect(s, results[i].effect.some)
                          ELSE {s}}

\* C19: within a year tick every effect of the year's talent pass is applied
\* before the year's event is drawn: the draw, its include and exclude
\* predicates and the first event of the year act on the post-talent state.
C19_TalentEffectsBeforeDraw ==
    /\ pc = "do_events" =>
          /\ pending = <<>>
          /\ log[Len(log)].opportunity = "Talents"
          /\ log[Len(log)].caller = "do_events"
          /\ state \in AfterTalentEffects(log[Len(log)].before, log[Len(log)].results, 1)
    /\ \A k \in 1..Len(log) :
          (log[k].opportunity = "Event" /\ log[k].depth = 1) =>
              /\ k > 1 /\ log[k - 1].opportunity = "Talents"
              /\ log[k].before \in
                    AfterTalentEffects(log[k - 1].before, log[k - 1].results, 1)

\* event 32, whose include needs the STR the talent added at age 0 gives,
\* is drawn in year 0
C19_Witness ==
    /\ pc = "event_chain" /\ cfg = CfgOrder /\ year_age = 0
    /\ chain.event_id = 32 /\ state.str_ = 6 /\ inp.properties.STR = 4

\* C20: the event chain of one year resolves at most 64 events, also when
\* the branches form a cycle whose conditions stay true, and the year tick
\* then completes: the recursion never exhausts the stack.
C20_ChainCapped ==
    /\ chain.depth <= 64
    /\ ~(pc = "overflow" /\ chain.depth > 0)

\* chains over branches without a cycle end and the year completes
ChainsWithoutCycleEnd ==
    cfg # CfgCycle => C20_ChainCapped

(***************************************************************************)
(* Talent replacement (talent/replacer.rs) within simulate.                *)
(***************************************************************************)
\* C21: recursive talent replacement terminates for every catalogue, one
\* where talents name each other in a cycle included: replace_talent never
\* goes deeper than 32 levels, and the run never ends in the recursion
C21_ReplacementTerminates ==
    /\ repl.depth <= 32
    /\ ~(pc = "overflow" /\ repl.depth > 0)

\* where no talent is reachable from itself by replacement, replace_talent
\* stays within the budget
ReplacementWithoutCycleEnds == cfg # CfgReplaceCycle => C21_ReplacementTerminates

\* the positions i..n of the input whose final id differs from the input
\* id, as ReplacementResults in the order of the positions
RECURSIVE ChangedPositions(_, _, _)
ChangedPositions(talent_ids, final, i) ==
    IF i > Len(talent_ids) THEN <<>>
    ELSE IF final[i] # talent_ids[i]
    THEN <<[source_id |-> talent_ids[i], target_id |-> final[i]]>>
         \o ChangedPositions(talent_ids, final, i + 1)
    ELSE ChangedPositions(talent_ids, final, i + 1)

\* apply_replacements has returned
ReplacementsReturned == ReplacementsDone /\ state # <<>>

\* C22: once apply_replacements has returned, replacements holds exactly
\* one ReplacementResult for every input position whose final id differs
\* from the input id (source the input id, target the final id), and none
\* for a position whose id is unchanged
C22_OneResultPerChangedPosition ==
    ReplacementsReturned =>
        replacements = ChangedPositions(inp.talent_ids, new_talents, 1)

\* where every final id is a talent of the catalogue, the results are the
\* changed positions
ResultsForKnownTargets ==
    (ReplacementsReturned /\ Range(new_talents) \subseteq DOMAIN cfg.talents) =>
        replacements = ChangedPositions(inp.talent_ids, new_talents, 1)

\* the draws of weighted_random in replace_talent
DrawnTargets == {e \in Range(log) : e.opportunity = "Draw" /\ e.drawn}

\* C23: every id drawn as a replacement target has no bidirectional
\* exclusion conflict with any talent of the accumulated set (the current
\* talent list with the targets of the earlier replacements) at the draw
C23_DrawnTargetsConflictFree ==
    \A e \in DrawnTargets : ~Conflict(cfg.talents, e.existing, e.id)

\* a drawn target that is a talent of the catalogue conflicts with no talent
\* of the accumulated set
KnownDrawnTargetsConflictFree ==
    \A e \in DrawnTargets :
        e.id \in DOMAIN cfg.talents => ~Conflict(cfg.talents, e.existing, e.id)

\* C24: in every state of a simulate run (after seeding the talents from
\* the replaced list, after the age talents are added, after every event)
\* state.tlt and state.evt hold no id twice
C24_ListsHaveNoDuplicates ==
    state # <<>> => NoDup(state.tlt) /\ NoDup(state.evt)

\* evt never holds an id twice, and tlt holds none twice that the replaced
\* list does not hold twice
NoDuplicatesBeyondSeeding ==
    state # <<>> =>
        /\ NoDup(state.evt)
        /\ \A id \in Range(state.tlt) :
              Cardinality({k \in DOMAIN state.tlt : state.tlt[k] = id}) <=
                  Max(1, Cardinality({k \in DOMAIN new_talents : new_talents[k] = id}))

(***************************************************************************)
(* The phases of simulate (simulator/engine.rs).                           *)
(***************************************************************************)
\* the phase simulate is in after one more entry of the history:
\* replacement, then the initial talent pass, then the START sweep, then per
\* year the tick (its talent pass, its events) closed by the TRAJECTORY
\* sweep, then the SUMMARY sweep; "bad" for an entry out of this order
PhaseAfter(phase, e) ==
    CASE phase = "replacement" /\ e.opportunity \in {"Draw", "Replace"} -> "replacement"
      [] phase = "replacement" /\ e.opportunity = "Talents"
             /\ e.caller = "start_achievements" -> "initial"
      [] phase = "initial" /\ e.opportunity = "Start" -> "loop"
      [] phase = "loop" /\ e.opportunity = "Talents"
             /\ e.caller \in {"do_events", "year_end"} -> "tick"
      [] phase = "tick" /\ e.opportunity = "Event" -> "tick"
      [] phase = "tick" /\ e.opportunity = "Trajectory" -> "loop"
      [] phase = "loop" /\ e.opportunity = "Summary" -> "result"
      [] OTHER -> "bad"

RECURSIVE PhaseOf(_, _, _)
PhaseOf(entries, i, phase) ==
    IF i > Len(entries) THEN phase
    ELSE PhaseOf(entries, i + 1, PhaseAfter(phase, entries[i]))

\* the ticks: the talent passes of simulate_year
Ticks == SelectSeq(log, LAMBDA e : e.opportunity = "Talents"
                                     /\ e.caller \in {"do_events", "year_end"})

\* C25: simulate runs its phases in the fixed order: replacement, the
\* initial talent pass, exactly one START sweep before any tick, per year
\* one tick followed by exactly one TRAJECTORY sweep (after the final year
\* too), exactly one SUMMARY sweep after the last tick, then the result; no
\* START sweep after a tick, no TRAJECTORY sweep after the SUMMARY sweep
C25_PhasesInOrder ==
    \E phase \in {PhaseOf(log, 1, "replacement")} :
        /\ phase # "bad"
        /\ Len(LogOf("Start")) <= 1
        /\ Len(LogOf("Summary")) <= 1
        /\ Len(Ticks) > 0 => Len(LogOf("Start")) = 1
        /\ Len(LogOf("Trajectory")) = Len(trajectory)
        /\ phase = "loop" => Len(LogOf("Trajectory")) = Len(Ticks)
        /\ phase = "tick" => Len(LogOf("Trajectory")) + 1 = Len(Ticks)
        /\ pc \in {"while", "summary"} => phase = "loop"
        /\ IsSome(result) <=> phase = "result"
        /\ pc = "done" <=> IsSome(result)
        /\ IsSome(result) =>
              /\ Len(LogOf("Start")) = 1 /\ Len(LogOf("Summary")) = 1
              /\ Len(LogOf("Trajectory")) = Len(Ticks)
              /\ Len(result.some.v.trajectory) = Len(Ticks)

\* a run of several years has returned
C25_Witness ==
    /\ pc = "done" /\ Len(Ticks) >= 2
    /\ PhaseOf(log, 1, "replacement") = "result"

\* a run whose initial talents ended the life has returned: no tick
C25_WitnessNoTick ==
    /\ pc = "done" /\ Len(Ticks) = 0
    /\ PhaseOf(log, 1, "replacement") = "result"

(***************************************************************************)
(* Events of a year: content records and absent ids.                       *)
(***************************************************************************)
\* the description the claim gives an event that was processed
ExpectedDescription(event, matched) ==
    IF ~matched /\ IsSome(event.post_event)
    THEN Append(event.event, event.post_event.some)
    ELSE event.event

\* C26: the description of the content record of an event is the event
\* text followed by its post_event text when no branch matched, and the
\* event text alone when a branch matched
C26_PostEventOnlyWithoutBranch ==
    /\ \A e \in Range(LogOf("Event")) :
          /\ e.content.content_type = "EVT"
          /\ e.content.description =
                ExpectedDescription(cfg.events[e.event_id], IsSome(e.next_event_id))
    /\ \A k \in 1..Len(content) :
          content[k].content_type = "EVT" =>
              \E e \in Range(LogOf("Event")) : e.content = content[k]
    /\ (log # <<>> /\ log[Len(log)].opportunity = "Event") =>
          (content # <<>> /\ content[Len(content)] = log[Len(log)].content)

\* an event that declares post_event took a branch: the text alone
C26_Witness ==
    \E e \in Range(LogOf("Event")) :
        /\ IsSome(cfg.events[e.event_id].post_event)
        /\ IsSome(e.next_event_id)
        /\ e.content.description = cfg.events[e.event_id].event

\* an event that declares post_event and branches took no branch: the text
\* followed by the post_event text
C26_WitnessPost ==
    \E e \in Range(LogOf("Event")) :
        /\ IsSome(cfg.events[e.event_id].post_event)
        /\ IsSome(cfg.events[e.event_id].branch)
        /\ ~IsSome(e.next_event_id)
        /\ e.content.description = <<"event", e.event_id, "post">>

\* the last event of the chain, when the chain has just ended
LastEvent == log[Len(log)]

\* the chain has just ended at a branch to an id the catalogue lacks
EndedAtAbsentEvent ==
    /\ pc = "year_end" /\ log # <<>> /\ LastEvent.opportunity = "Event"
    /\ IsSome(LastEvent.next_event_id)
    /\ LastEvent.next_event_id.some \notin DOMAIN cfg.events

\* C27: ids the catalogues lack are no-ops and never make simulate fail: a
\* talent id in tlt that the catalogue lacks never triggers and never
\* changes the trigger counts; an event id in an age's pool that the
\* catalogue lacks is never selected; a branch to an event id the catalogue
\* lacks ends the chain without recording the id in evt and without
\* changing any property
C27_AbsentIdsAreNoOps ==
    /\ DOMAIN trigger_counts \subseteq DOMAIN cfg.talents
    /\ \A e \in Range(LogOf("Talents")) :
          \A k \in 1..Len(e.results) : e.results[k].talent_id \in DOMAIN cfg.talents
    /\ (pc = "event_chain" /\ chain.depth = 1) => chain.event_id \in DOMAIN cfg.events
    /\ state # <<>> => Range(state.evt) \subseteq DOMAIN cfg.events
    /\ \A e \in Range(LogOf("Event")) : e.event_id \in DOMAIN cfg.events
    /\ EndedAtAbsentEvent => state = LastEvent.after
    /\ IsSome(result) => result.some.ok

\* a chain has ended at a branch to an absent event, in a run whose talent
\* list and whose pool of the year hold absent ids
C27_Witness ==
    /\ EndedAtAbsentEvent
    /\ \E k \in 1..Len(state.tlt) : state.tlt[k] \notin DOMAIN cfg.talents
    /\ \E k \in 1..Len(cfg.ages[year_age].events.some) :
          cfg.ages[year_age].events.some[k][1] \notin DOMAIN cfg.events

(***************************************************************************)
(* The judges of the summary (simulator/engine.rs).                        *)
(***************************************************************************)
JudgedKeys == {"HCHR", "HINT", "HSTR", "HMNY", "HSPR", "HAGE", "SUM"}

\* the value a key is judged on
JudgedValue(s, key) ==
    CASE key = "HCHR" -> Max(s.hchr, s.chr)
      [] key = "HINT" -> Max(s.hint, s.int)
      [] key = "HSTR" -> Max(s.hstr, s.str_)
      [] key = "HMNY" -> Max(s.hmny, s.mny)
      [] key = "HSPR" -> Max(s.hspr, s.spr)
      [] key = "HAGE" -> Max(s.hage, s.age)
      [] key = "SUM" -> calculate_summary_score(s)

\* the levels the engine was built with for a key
LevelsOf(key) == IF key \in DOMAIN cfg.judge_config THEN cfg.judge_config[key] ELSE <<>>

\* the judges of the result for a key
JudgesOf(key) ==
    {k \in 1..Len(result.some.v.summary.judges) :
        result.some.v.summary.judges[k].property_type = key}

\* the judge of a key uses the level with the greatest min <= the value; no
\* judge where no level has min <= the value
GreatestMinJudge(key) ==
    LET value == JudgedValue(state, key)
        levels == LevelsOf(key)
        eligible == {k \in 1..Len(levels) : levels[k].min <= value}
    IN  IF eligible = {} THEN JudgesOf(key) = {}
        ELSE /\ Cardinality(JudgesOf(key)) = 1
             /\ \A j \in JudgesOf(key) :
                   /\ result.some.v.summary.judges[j].value = value
                   /\ \E k \in eligible :
                         /\ levels[k].min = SetMax({levels[m].min : m \in eligible})
                         /\ result.some.v.summary.judges[j].grade = levels[k].grade
                         /\ result.some.v.summary.judges[j].text = levels[k].text

SortedByMinDescending(levels) ==
    \A i, j \in 1..Len(levels) : i < j => levels[i].min >= levels[j].min

\* C28: for every judged key the PropertyJudge of the result uses the level
\* with the greatest min that is <= the value, whatever the order of the
\* levels the engine was built with; no judge for a key with no level whose
\* min is <= the value
C28_JudgeUsesGreatestMin ==
    IsSome(result) => \A key \in JudgedKeys : GreatestMinJudge(key)

\* for a key whose levels the engine was given by min descending the judge
\* uses the level with the greatest min <= the value
JudgeOfSortedLevels ==
    IsSome(result) =>
        \A key \in JudgedKeys : SortedByMinDescending(LevelsOf(key)) => GreatestMinJudge(key)

(***************************************************************************)
(* EffectSpec: one call of apply_talent_effect, of apply_event_effect or   *)
(* of change on a PropertyState.                                           *)
(***************************************************************************)
\* states after new and after changes that move the extrema off the values
EffectStates ==
    SeedStates
    \cup {change_det(change_det(s, "CHR", d), "AGE", 1) : s \in SeedStates, d \in {-3, 2}}

\* effects with every field zero or not, and both signs for CHR and RDM
EffectArgs ==
    {Effect(chr, int, 0, mny, 0, lif, age, rdm) :
        chr \in {0, -7, 2}, int \in {0, 1}, mny \in {0, -2}, lif \in {0, -1},
        age \in {0, 1}, rdm \in {0, -9, 3}}
    \cup {Effect(0, 0, str_, 0, spr, 0, 0, rdm) :
             str_ \in {0, 4}, spr \in {0, -6}, rdm \in {0, -9, 3}}

EffectCalls ==
    {[op |-> op, effect |-> e, prop |-> "", delta |-> 0] :
        op \in {"apply_talent_effect", "apply_event_effect"}, e \in EffectArgs}
    \cup {[op |-> "change", effect |-> NoEffect, prop |-> prop, delta |-> k] :
             prop \in {"RDM", "CHR", "LIF"}, k \in {-9, 0, 3}}

EffectInit ==
    /\ state \in EffectStates
    /\ fin \in EffectCalls
    /\ fout = None
    /\ calls = 0
    /\ seen = <<>>
    /\ cache = <<>>
    /\ CacheIdle /\ SimIdle

\* the call made: fout keeps the state before it and every state it can leave
EffectReturn(outcomes) ==
    /\ calls = 0
    /\ state' \in outcomes
    /\ fout' = Some([before |-> state, outcomes |-> outcomes])
    /\ calls' = 1
    /\ UNCHANGED <<fin, seen, cache, cacheVars, simVars>>

TalentEffectCall ==
    /\ fin.op = "apply_talent_effect"
    /\ EffectReturn(apply_talent_effect(state, fin.effect))

EventEffectCall ==
    /\ fin.op = "apply_event_effect"
    /\ EffectReturn(apply_event_effect(state, fin.effect))

ChangeCall ==
    /\ fin.op = "change"
    /\ EffectReturn(change(state, fin.prop, fin.delta))

EffectNext == TalentEffectCall \/ EventEffectCall \/ ChangeCall

EffectSpec == EffectInit /\ [][EffectNext]_vars

\* the change calls for the non-zero fields of an effect, in the order of
\* the fields
ChangeCalls(effect) ==
    SelectSeq(<< <<"CHR", effect.chr>>, <<"INT", effect.int>>, <<"STR", effect.str_>>,
                 <<"MNY", effect.mny>>, <<"SPR", effect.spr>>, <<"LIF", effect.lif>>,
                 <<"AGE", effect.age>>, <<"RDM", effect.rdm>> >>,
              LAMBDA c : c[2] # 0)

\* the states a sequence of change calls can leave
RECURSIVE AfterChanges(_, _)
AfterChanges(S, cs) ==
    IF cs = <<>> THEN S
    ELSE AfterChanges(UNION {change(s, Head(cs)[1], Head(cs)[2]) : s \in S}, Tail(cs))

\* C29: apply_talent_effect leaves the state exactly as the sequence of
\* change calls for the non-zero fields of the effect would: the same
\* scalars and extrema, LIF without extrema, RDM redirected to one of CHR,
\* INT, STR, MNY, SPR; apply_event_effect, which makes those calls, leaves
\* the same states
C29_TalentEffectIsChangeSequence ==
    (IsSome(fout) /\ fin.op \in {"apply_talent_effect", "apply_event_effect"}) =>
        /\ fout.some.outcomes = AfterChanges({fout.some.before}, ChangeCalls(fin.effect))
        /\ state \in AfterChanges({fout.some.before}, ChangeCalls(fin.effect))

\* a talent effect with CHR, LIF and RDM was applied; it lowered a minimum
C29_Witness ==
    /\ IsSome(fout) /\ fin.op = "apply_talent_effect"
    /\ fin.effect.chr # 0 /\ fin.effect.lif # 0 /\ fin.effect.rdm # 0
    /\ state.lchr < fout.some.before.lchr
    /\ state.lif # fout.some.before.lif
    /\ Cardinality(fout.some.outcomes) = 5

\* the state with delta added to scalar f and the extrema of f updated
Redirected(s, f, delta) ==
    [s EXCEPT ![f] = s[f] + delta,
              ![LField[f]] = Min(s[LField[f]], s[f] + delta),
              ![HField[f]] = Max(s[HField[f]], s[f] + delta)]

RdmFields == {"chr", "int", "str_", "mny", "spr"}

\* C30: change("RDM", k) adds k to exactly one of CHR, INT, STR, MNY, SPR
\* and updates the extrema of that scalar; AGE, LIF, tlt, evt and the four
\* other scalars with their extrema stay as they were
C30_RdmMovesOneScalar ==
    (IsSome(fout) /\ fin.op = "change" /\ fin.prop = "RDM") =>
        /\ \E f \in RdmFields :
              /\ state = Redirected(fout.some.before, f, fin.delta)
              /\ \A g \in RdmFields \ {f} :
                    /\ state[g] = fout.some.before[g]
                    /\ state[LField[g]] = fout.some.before[LField[g]]
                    /\ state[HField[g]] = fout.some.before[HField[g]]
        /\ fin.delta # 0 =>
              Cardinality({f \in RdmFields :
                              state[f] # fout.some.before[f]}) = 1
        /\ state.age = fout.some.before.age /\ state.lage = fout.some.before.lage
        /\ state.hage = fout.some.before.hage /\ state.lif = fout.some.before.lif
        /\ state.tlt = fout.some.before.tlt /\ state.evt = fout.some.before.evt
        /\ fout.some.outcomes =
              {Redirected(fout.some.before, f, fin.delta) : f \in RdmFields}

\* change("RDM", -9) went to MNY and lowered its minimum
C30_Witness ==
    /\ IsSome(fout) /\ fin.op = "change" /\ fin.prop = "RDM" /\ fin.delta = -9
    /\ state.mny = fout.some.before.mny - 9
    /\ state.lmny = state.mny /\ state.lmny < fout.some.before.lmny

(***************************************************************************)
(* CacheFairSpec: the threads of CacheSpec, each of them scheduled again   *)
(* and again, the lock granted to a thread that keeps waiting for it.      *)
(***************************************************************************)
\* a step of thread t inside a call
CacheStep(t) ==
    \/ ReadLock(t) \/ Lookup(t) \/ ReadUnlock(t) \/ Parse(t)
    \/ WriteLock(t) \/ Insert(t) \/ Clear(t) \/ WriteUnlock(t)
    \/ CacheReturn(t)

CacheFairSpec == CacheSpec /\ \A t \in Threads : WF_vars(CacheStep(t))

\* thread t is inside get_or_parse (called directly or by check_condition)
InGetOrParse(t) ==
    /\ thr[t].op \in {"get_or_parse", "check_condition"}
    /\ thr[t].pc \notin {"idle", "done"}

\* no thread asks for the write lock, or holds it, while it holds the read lock
NoLockUpgrade ==
    \A t \in Threads :
        thr[t].pc \in {"write_lock", "insert", "clear", "write_unlock"} =>
            t \notin lock.readers

\* some thread inside a call can take its next step
NotDeadlocked ==
    (\E t \in Threads : thr[t].pc \notin {"idle", "done"}) =>
        \E t \in Threads :
            \/ thr[t].pc \in {"lookup", "read_unlock", "parse", "insert", "clear",
                               "write_unlock", "got"}
            \/ thr[t].pc = "read_lock" /\ lock.writer = None
            \/ thr[t].pc = "write_lock" /\ lock = Unlocked

\* the cache holds one AST for a string: the parse of the string
CacheHoldsParses == \A k \in DOMAIN cache : parse(k) = Ok(cache[k])

\* C31: in get_or_parse no thread requests the write lock while it holds
\* the read lock, so threads calling get_or_parse concurrently never
\* deadlock and every call eventually returns; when two threads miss on the
\* same string both insert, and the cache holds a single entry for the
\* string, equal to its parse
C31_NoUpgradeNoDeadlock ==
    /\ [](NoLockUpgrade /\ NotDeadlocked /\ CacheHoldsParses)
    /\ \A t \in Threads : InGetOrParse(t) ~> thr[t].pc = "done"

\* both threads missed on the same string, both inserted and returned; the
\* cache holds the parse of the string
C31_Witness ==
    \E t, u \in Threads :
        /\ t # u
        /\ thr[t].condition = thr[u].condition /\ thr[t].condition # <<>>
        /\ thr[t].op = "get_or_parse" /\ thr[u].op = "get_or_parse"
        /\ thr[t].pc = "done" /\ thr[u].pc = "done"
        /\ ~thr[t].hit /\ ~thr[u].hit
        /\ DOMAIN cache = {thr[t].condition}
        /\ thr[t].ret = Some(Ok(cache[thr[t].condition]))
        /\ thr[u].ret = thr[t].ret
        /\ parse(thr[t].condition) = Ok(cache[thr[t].condition])

(***************************************************************************)
(* EngineSpec: simulate called again and again on one engine.              *)
(***************************************************************************)
\* simulate calls made on the engine
MaxSimulations == 2

\* simulate has returned and is called again on the same engine: its
\* locals start anew (trigger_counts is created by Seed), the engine and the
\* global cache stay; seen keeps the triggers of the call before
SimAgain ==
    /\ pc = "done"
    /\ calls + 1 < MaxSimulations
    /\ calls' = calls + 1
    /\ seen' = <<fired>>
    /\ \E run \in SimRuns : run[1] = cfg /\ inp' = run[2]
    /\ pc' = "apply_replacements"
    /\ new_talents' = inp'.talent_ids
    /\ replacements' = <<>>
    /\ repl' = [i |-> 1, talent_id |-> 0, existing |-> <<>>, depth |-> 0]
    /\ state' = <<>>
    /\ current_achieved' = <<>>
    /\ all_new_achievements' = <<>>
    /\ trajectory' = <<>>
    /\ pending' = <<>>
    /\ cont' = ""
    /\ content' = <<>>
    /\ year_age' = -1
    /\ chain' = [event_id |-> 0, depth |-> 0]
    /\ result' = None
    /\ log' = <<>>
    /\ fired' = <<>>
    /\ UNCHANGED <<cfg, cache, trigger_counts, fnVars, cacheVars>>

EngineNext == SimNext \/ SimAgain

EngineSpec == SimInit /\ [][EngineNext]_vars

\* the trigger counter counts the triggers of this call and no others, the
\* first talent pass of the call finds it empty, and no talent triggers
\* more often than max_triggers in the call
CountsOfThisRun ==
    /\ state # <<>> =>
          \A t \in DOMAIN trigger_counts \cup DOMAIN fired :
              count_of(trigger_counts, t) = count_of(fired, t)
    /\ LogOf("Talents") # <<>> => LogOf("Talents")[1].counts = <<>>
    /\ \A t \in DOMAIN fired :
          t \in DOMAIN cfg.talents /\ fired[t] <= cfg.talents[t].max_triggers

\* C32: trigger counts are per run: every simulate call starts with all
\* trigger counts at zero, so in each of a sequence of simulate calls on the
\* same engine a talent can trigger up to max_triggers times whatever the
\* earlier calls did, and simulate leaves the catalogues of the engine
\* unchanged
C32_TriggerCountsPerRun ==
    /\ []CountsOfThisRun
    /\ [][cfg' = cfg]_vars

\* in a later call a talent has triggered max_triggers times, as it had in
\* the call before
C32_Witness ==
    /\ calls >= 1 /\ Len(seen) = 1
    /\ \E t \in DOMAIN fired :
          /\ cfg.talents[t].max_triggers = 2
          /\ fired[t] = 2 /\ count_of(seen[1], t) = 2
          /\ count_of(trigger_counts, t) = 2

(***************************************************************************)
(* The snapshot of a year (property/state.rs, simulator/session.rs).       *)
(***************************************************************************)
\* the state at the end of year k of the trajectory
YearEndState(k) == LogOf("Trajectory")[k].after

\* C33: the properties map of every trajectory entry is a snapshot of
\* every scalar of the state (AGE, CHR, INT, STR, MNY, SPR and LIF) taken
\* after all mutations of the year, so the LIF a rendered year reports is
\* state.lif at the end of that year
C33_SnapshotHoldsEveryScalar ==
    \A k \in 1..Len(trajectory) :
        /\ DOMAIN trajectory[k].properties =
              {"AGE", "CHR", "INT", "STR", "MNY", "SPR", "LIF"}
        /\ trajectory[k].properties["LIF"] = YearEndState(k).lif
        /\ rendered_properties(trajectory[k])[6] = YearEndState(k).lif

\* the snapshot holds AGE, CHR, INT, STR, MNY and SPR as they are after all
\* mutations of the year, and a rendered year reports the five it shows
SnapshotOfSixScalars ==
    \A k \in 1..Len(trajectory) :
        /\ trajectory[k].properties =
              [AGE |-> YearEndState(k).age, CHR |-> YearEndState(k).chr,
               INT |-> YearEndState(k).int, STR |-> YearEndState(k).str_,
               MNY |-> YearEndState(k).mny, SPR |-> YearEndState(k).spr]
        /\ SubSeq(rendered_properties(trajectory[k]), 1, 5) =
              <<YearEndState(k).chr, YearEndState(k).int, YearEndState(k).str_,
                YearEndState(k).mny, YearEndState(k).spr>>
        /\ trajectory[k].is_end = (YearEndState(k).lif < 1)

\* every rendered year reports LIF 0, whatever the state held
RenderedLifIsZero ==
    \A k \in 1..Len(trajectory) : rendered_properties(trajectory[k])[6] = 0

(***************************************************************************)
(* ParseSpec: one call of parse on a condition string made of atoms,       *)
(* operators and parentheses, separated by blanks.                         *)
(***************************************************************************)
\* symbols of a condition string
MaxTokens == 5

INT_LT_9 == <<"I", "N", "T", "<", "9">>

AGE_EQ_0 == <<"A", "G", "E", "=", "0">>

ParseAtoms == {CHR_GT_5, INT_LT_9, AGE_EQ_0}

SymOr == <<"|">>

SymAnd == <<"&">>

SymOpen == <<"(">>

SymClose == <<")">>

ParseSymbols == ParseAtoms \cup {SymOr, SymAnd, SymOpen, SymClose}

\* the symbols of a string, joined by blanks
RECURSIVE Join(_)
Join(symbols) ==
    IF symbols = <<>> THEN <<>>
    ELSE IF Len(symbols) = 1 THEN Head(symbols)
    ELSE Head(symbols) \o <<" ">> \o Join(Tail(symbols))

\* every string of up to MaxTokens symbols, and the strings of seven
\* symbols with one parenthesised pair of operands
ParseInputs ==
    SeqsUpTo(ParseSymbols, MaxTokens)
    \cup {<<SymOpen, a, o1, b, SymClose, o2, c>> :
             a \in ParseAtoms, b \in ParseAtoms, c \in ParseAtoms,
             o1 \in {SymOr, SymAnd}, o2 \in {SymOr, SymAnd}}
    \cup {<<a, o1, SymOpen, b, o2, c, SymClose>> :
             a \in ParseAtoms, b \in ParseAtoms, c \in ParseAtoms,
             o1 \in {SymOr, SymAnd}, o2 \in {SymOr, SymAnd}}

ParseInit ==
    /\ fin \in {[symbols |-> q, condition |-> Join(q)] : q \in ParseInputs}
    /\ fout = None
    /\ calls = 0
    /\ cache = <<>>
    /\ state = <<>> /\ seen = <<>>
    /\ CacheIdle /\ SimIdle

\* parser::parse(condition)
ParseCall ==
    /\ calls = 0
    /\ fout' = Some(parse(fin.condition))
    /\ calls' = 1
    /\ UNCHANGED <<fin, state, seen, cache, cacheVars, simVars>>

ParseNext == ParseCall

ParseSpec == ParseInit /\ [][ParseNext]_vars

\* parse has returned an AST
Parsed == IsSome(fout) /\ fout.some.ok

\* the parentheses open before symbol i
RECURSIVE Depth(_, _)
Depth(q, i) ==
    IF i <= 1 THEN 0
    ELSE Depth(q, i - 1) + (IF q[i - 1] = SymOpen THEN 1
                            ELSE IF q[i - 1] = SymClose THEN -1 ELSE 0)

\* the positions of an operator outside all parentheses
Outermost(q, sym) == {i \in 1..Len(q) : q[i] = sym /\ Depth(q, i) = 0}

\* the atoms before position p
AtomsBefore(q, p) == Cardinality({i \in 1..(p - 1) : q[i] \in ParseAtoms})

\* the single conditions of an AST, left to right
RECURSIVE Leaves(_)
Leaves(ast) ==
    IF ast.node = "Single" THEN <<ast>> ELSE Leaves(ast.left) \o Leaves(ast.right)

\* the AST of an atom
Atom(a) == parse_single_condition(a).v

\* the root is a binary node whose sides meet at position p of the string
SplitAt(q, ast, p) ==
    /\ ast.node \in {"And", "Or"}
    /\ Len(Leaves(ast.left)) = AtomsBefore(q, p)

\* C34: | binds looser than &: when the token stream has a | outside all
\* parentheses the root of the AST is Or; And is the root only when there
\* is no such |; a parenthesised sub-expression stays one operand (the
\* sides of the root meet at an operator outside all parentheses); so
\* A | B & C parses as Or(A, And(B, C)) and (A & B) | C as Or(And(A, B), C)
C34_OrBindsLooser ==
    /\ (IsSome(fout) /\ fin.symbols = <<CHR_GT_5, SymOr, INT_LT_9, SymAnd, AGE_EQ_0>>) =>
          fout.some = Ok(AstOr(Atom(CHR_GT_5), AstAnd(Atom(INT_LT_9), Atom(AGE_EQ_0))))
    /\ (IsSome(fout)
          /\ fin.symbols = <<SymOpen, CHR_GT_5, SymAnd, INT_LT_9, SymClose, SymOr, AGE_EQ_0>>) =>
          fout.some = Ok(AstOr(AstAnd(Atom(CHR_GT_5), Atom(INT_LT_9)), Atom(AGE_EQ_0)))
    /\ Parsed =>
        \E q \in {fin.symbols}, ast \in {fout.some.v} :
            /\ Outermost(q, SymOr) # {} => ast.node = "Or"
            /\ ast.node = "And" => Outermost(q, SymOr) = {}
            /\ (Outermost(q, SymOr) = {} /\ Outermost(q, SymAnd) # {}) => ast.node = "And"
            /\ Outermost(q, SymOr) # {} =>
                  \E p \in Outermost(q, SymOr) : SplitAt(q, ast, p)
            /\ (Outermost(q, SymOr) = {} /\ Outermost(q, SymAnd) # {}) =>
                  \E p \in Outermost(q, SymAnd) : SplitAt(q, ast, p)

\* A & B | C has parsed: Or over the And on its left
C34_Witness ==
    /\ Parsed
    /\ fin.symbols = <<CHR_GT_5, SymAnd, INT_LT_9, SymOr, AGE_EQ_0>>
    /\ fout.some.v = AstOr(AstAnd(Atom(CHR_GT_5), Atom(INT_LT_9)), Atom(AGE_EQ_0))

\* A & ( B | C ) has parsed: the parenthesised Or is one operand of the And
C34_WitnessParen ==
    /\ Parsed
    /\ fin.symbols = <<CHR_GT_5, SymAnd, SymOpen, INT_LT_9, SymOr, AGE_EQ_0, SymClose>>
    /\ fout.some.v = AstAnd(Atom(CHR_GT_5), AstOr(Atom(INT_LT_9), Atom(AGE_EQ_0)))

\* C35: with several | outside all parentheses parse_tokens splits at the
\* leftmost of them (and, with no |, at the leftmost outermost &): A | B | C
\* parses as Or(A, Or(B, C)) and A & B & C as And(A, And(B, C))
C35_SplitsAtLeftmost ==
    Parsed =>
        \E q \in {fin.symbols}, ast \in {fout.some.v} :
            /\ Outermost(q, SymOr) # {} => SplitAt(q, ast, SetMin(Outermost(q, SymOr)))
            /\ (Outermost(q, SymOr) = {} /\ Outermost(q, SymAnd) # {}) =>
                  SplitAt(q, ast, SetMin(Outermost(q, SymAnd)))
            /\ q = <<CHR_GT_5, SymOr, INT_LT_9, SymOr, AGE_EQ_0>> =>
                  ast = AstOr(Atom(CHR_GT_5), AstOr(Atom(INT_LT_9), Atom(AGE_EQ_0)))
            /\ q = <<CHR_GT_5, SymAnd, INT_LT_9, SymAnd, AGE_EQ_0>> =>
                  ast = AstAnd(Atom(CHR_GT_5), AstAnd(Atom(INT_LT_9), Atom(AGE_EQ_0)))

\* parse_tokens splits at the last | outside all parentheses and, with no
\* |, at the last outermost &: A | B | C parses as Or(Or(A, B), C)
SplitsAtLast ==
    Parsed =>
        \E q \in {fin.symbols}, ast \in {fout.some.v} :
            /\ Outermost(q, SymOr) # {} => SplitAt(q, ast, SetMax(Outermost(q, SymOr)))
            /\ (Outermost(q, SymOr) = {} /\ Outermost(q, SymAnd) # {}) =>
                  SplitAt(q, ast, SetMax(Outermost(q, SymAnd)))
            /\ q = <<CHR_GT_5, SymOr, INT_LT_9, SymOr, AGE_EQ_0>> =>
                  ast = AstOr(AstOr(Atom(CHR_GT_5), Atom(INT_LT_9)), Atom(AGE_EQ_0))
            /\ q = <<CHR_GT_5, SymAnd, INT_LT_9, SymAnd, AGE_EQ_0>> =>
                  ast = AstAnd(AstAnd(Atom(CHR_GT_5), Atom(INT_LT_9)), Atom(AGE_EQ_0))

(***************************************************************************)
(* EvalSpec: one call of check_single on a single condition of any         *)
(* property kind, operator and literal kind.                               *)
(***************************************************************************)
PROP_CHR == <<"C", "H", "R">>

PROP_TLT == <<"T", "L", "T">>

PROP_EVT == <<"E", "V", "T">>

PROP_UNKNOWN == <<"X", "Y", "Z">>

EvalProps == {PROP_CHR, PROP_TLT, PROP_EVT, PROP_UNKNOWN}

EvalOps == {Operators[k].op : k \in 1..Len(Operators)}

\* the literals: integers, the floats 5.5 and 5.0, arrays, a bareword
EvalValues ==
    {ValInteger(i) : i \in {0, 5, 7}}
    \cup {ValFloat([num |-> 55, den |-> 10]), ValFloat([num |-> 50, den |-> 10])}
    \cup {ValArray(a) : a \in {<<>>, <<5>>, <<1, 7>>}}
    \cup {ValString(<<"a">>)}

EvalLists == {<<>>, <<5>>, <<1, 2>>}

EvalStates ==
    {[new(chr, 6, 7, 8, 5, 1) EXCEPT !.tlt = tlt, !.evt = evt] :
        chr \in {0, 5, 7}, tlt \in EvalLists, evt \in {<<>>, <<7>>}}

EvalInit ==
    /\ fin \in {[cond |-> AstSingle(property, operator, value), state |-> s] :
                  property \in EvalProps, operator \in EvalOps,
                  value \in EvalValues, s \in EvalStates}
    /\ fout = None
    /\ calls = 0
    /\ cache = <<>>
    /\ state = <<>> /\ seen = <<>>
    /\ CacheIdle /\ SimIdle

\* check_single(cond, state)
EvalCall ==
    /\ calls = 0
    /\ fout' = Some(check_single(fin.cond, fin.state))
    /\ calls' = 1
    /\ UNCHANGED <<fin, state, seen, cache, cacheVars, simVars>>

EvalNext == EvalCall

EvalSpec == EvalInit /\ [][EvalNext]_vars

\* the property kind of a name: TLT and EVT are lists, every other name a
\* scalar
IsListProperty(property) == property \in {PROP_TLT, PROP_EVT}

\* the value a scalar name is looked up as
ScalarLookup(s, property) == IF property = PROP_CHR THEN s.chr ELSE 0

\* the value a list name is looked up as
ListLookup(s, property) == IF property = PROP_TLT THEN s.tlt ELSE s.evt

\* the elements of a sequence
Elements(seq) == {seq[i] : i \in 1..Len(seq)}

\* a row of the evaluation table for a scalar v
ScalarRow(v, operator, c) ==
    CASE c.kind = "Integer" /\ operator = "Greater" -> v > c.i
      [] c.kind = "Integer" /\ operator = "Less" -> v < c.i
      [] c.kind = "Integer" /\ operator = "GreaterEqual" -> v >= c.i
      [] c.kind = "Integer" /\ operator = "LessEqual" -> v <= c.i
      [] c.kind = "Integer" /\ operator = "Equal" -> v = c.i
      [] c.kind = "Integer" /\ operator = "NotEqual" -> v # c.i
      [] c.kind = "Float" /\ operator = "Greater" -> v * c.f.den > c.f.num
      [] c.kind = "Float" /\ operator = "Less" -> v * c.f.den < c.f.num
      [] c.kind = "Float" /\ operator = "GreaterEqual" -> v * c.f.den >= c.f.num
      [] c.kind = "Float" /\ operator = "LessEqual" -> v * c.f.den <= c.f.num
      [] c.kind = "Array" /\ operator = "IncludesAny" -> v \in Elements(c.arr)
      [] c.kind = "Array" /\ operator = "ExcludesAll" -> v \notin Elements(c.arr)
      [] OTHER -> FALSE

\* a row of the evaluation table for a list v
ListRow(v, operator, c) ==
    CASE c.kind = "Integer" /\ operator = "Equal" -> c.i \in Elements(v)
      [] c.kind = "Integer" /\ operator = "NotEqual" -> c.i \notin Elements(v)
      [] c.kind = "Array" /\ operator = "IncludesAny" ->
            Elements(v) \cap Elements(c.arr) # {}
      [] c.kind = "Array" /\ operator = "ExcludesAll" ->
            Elements(v) \cap Elements(c.arr) = {}
      [] OTHER -> FALSE

\* C36: check_single follows the evaluation table for every property kind,
\* operator and literal kind: a scalar against an integer literal compares
\* arithmetically (against a float literal, promoted), a scalar with ? / !
\* tests membership in the array, a list with = / != tests containment of
\* the integer, a list with ? / ! tests whether the two share an element;
\* every other combination (a list with >, a scalar = array, any string
\* literal) is false; an unknown property name is looked up as integer 0
C36_FollowsEvaluationTable ==
    IsSome(fout) =>
        /\ fout.some =
              IF IsListProperty(fin.cond.property)
              THEN ListRow(ListLookup(fin.state, fin.cond.property),
                           fin.cond.operator, fin.cond.value)
              ELSE ScalarRow(ScalarLookup(fin.state, fin.cond.property),
                             fin.cond.operator, fin.cond.value)
        /\ fin.cond.value.kind = "String" => fout.some = FALSE
        /\ (IsListProperty(fin.cond.property) /\ fin.cond.operator = "Greater") =>
              fout.some = FALSE
        /\ (~IsListProperty(fin.cond.property) /\ fin.cond.operator = "Equal"
              /\ fin.cond.value.kind = "Array") => fout.some = FALSE

\* TLT = 5 on a state whose talents hold 5 is true
C36_Witness ==
    /\ IsSome(fout)
    /\ fin.cond = AstSingle(PROP_TLT, "Equal", ValInteger(5))
    /\ fin.state.tlt = <<5>>
    /\ fout.some = TRUE

\* XYZ = 0 is true on a state with CHR 5: the unknown name is integer 0
C36_WitnessUnknown ==
    /\ IsSome(fout)
    /\ fin.cond = AstSingle(PROP_UNKNOWN, "Equal", ValInteger(0))
    /\ fin.state.chr = 5
    /\ fout.some = TRUE

\* CHR = [5] on a state with CHR 5 is false
C36_WitnessUnlisted ==
    /\ IsSome(fout)
    /\ fin.cond = AstSingle(PROP_CHR, "Equal", ValArray(<<5>>))
    /\ fin.state.chr = 5
    /\ fout.some = FALSE

(***************************************************************************)
(* A year without a selection.                                             *)
(***************************************************************************)
\* the filtering pass of this year's draw on state s
YearFilter(s) ==
    select_filter(cfg.ages[year_age].events.some, cfg.events, s, 1, <<>>, 0, cache)

\* the surviving pool of this year's draw is empty or weighs nothing
NoSurvivor == pc = "do_events" /\ \E f \in {YearFilter(state)} :
                  f.available = <<>> \/ f.total_weight <= 0

\* the content records of events
EventRecords(records) == SelectSeq(records, LAMBDA r : r.content_type = "EVT")

\* the trajectory holds the entry of year a, without an event record
EmittedWithoutEvent(a) ==
    \E k \in 1..Len(trajectory) :
        /\ trajectory[k].age = a
        /\ EventRecords(trajectory[k].content) = <<>>

\* C37: when the surviving pool is empty or its total weight is <= 0,
\* select_event returns no selection and the year tick still completes:
\* the talent pass has run, no event is recorded in state.evt, and the
\* trajectory entry of the year is emitted
C37_NoSelectionYearCompletes ==
    /\ [](NoSurvivor =>
            /\ \A o \in select_event(cfg.ages[year_age].events.some, cfg.events,
                                      state, cache) : o.id = None
            /\ log[Len(log)].opportunity = "Talents"
            /\ log[Len(log)].caller = "do_events"
            /\ log[Len(log)].before.age = year_age
            /\ EventRecords(content) = <<>>)
    /\ [][NoSurvivor => /\ pc' = "year_end"
                        /\ state' = state /\ content' = content
                        /\ trajectory' = trajectory]_vars
    /\ [][pc = "year_end" =>
            /\ trajectory' = Append(trajectory, TrajectoryEntry(year_age, content, state))
            /\ state' = state]_vars
    /\ \A a \in 0..MaxYears : (NoSurvivor /\ year_age = a) ~> EmittedWithoutEvent(a)

\* the year of age 2 has ended without an event: its pool survives with
\* total weight 0
C37_Witness ==
    /\ cfg = CfgLife
    /\ EmittedWithoutEvent(2)
    /\ trajectory[Len(trajectory)].age = 2
    /\ YearEndState(Len(trajectory)).evt = YearEndState(Len(trajectory) - 1).evt

\* the year of age 3 has ended without an event: no entry of its pool
\* survives
C37_WitnessEmpty ==
    /\ cfg = CfgLife
    /\ EmittedWithoutEvent(3)
    /\ trajectory[Len(trajectory)].age = 3
    /\ YearEndState(Len(trajectory)).evt = YearEndState(Len(trajectory) - 1).evt

(***************************************************************************)
(* Entries of weight 0 in a weighted draw.                                 *)
(***************************************************************************)
\* the entries of the pool that survive the filtering pass
Surviving == select_filter(fin.event_pool, fin.events, state, 1, <<>>, 0, cache).available

\* the ids of the surviving entries of positive weight
PositiveIds == {Surviving[i][1] : i \in {j \in 1..Len(Surviving) : Surviving[j][2] > 0}}

\* C38: the weighted draw never returns an entry of weight 0 when another
\* surviving entry has a positive weight, for every draw value r in [0, W)
C38_ZeroWeightNeverDrawn ==
    (IsSome(fout) /\ IsSome(fout.some) /\ PositiveIds # {}) =>
        fout.some.some \in PositiveIds

\* an id that is returned although each of its surviving entries weighs 0
\* stands before every surviving entry of positive weight: it is returned by
\* the draw r = 0 alone, whose first subtraction leaves 0 <= 0
ZeroWeightDrawnOnlyInFront ==
    (IsSome(fout) /\ IsSome(fout.some) /\ PositiveIds # {}
       /\ fout.some.some \notin PositiveIds) =>
        /\ Surviving[1][1] = fout.some.some
        /\ Surviving[1][2] = 0
        /\ weighted_scan(Surviving, 1, 0) = fout.some
        /\ \A k \in Draws(SumWeights(Surviving)) \ {0} :
              weighted_scan(Surviving, 1, k).some \in PositiveIds

(***************************************************************************)
(* Achievement sweeps and the order of the catalogue.                      *)
(***************************************************************************)
\* the ids a sweep is to award, said without an order: the achievements of
\* the opportunity that are not achieved and whose condition holds
ExpectedIds(opportunity, s, achieved) ==
    {cfg.achievements[k].id :
        k \in {j \in DOMAIN cfg.achievements :
                  /\ Opportunity_from_str(cfg.achievements[j].opportunity)
                        = Some(opportunity)
                  /\ ~is_achieved(cfg.achievements[j].id, achieved)
                  /\ Holds(cfg.achievements[j].condition, s)}}

\* C39: the set of achievement ids one check_achievements sweep awards, and
\* so the set of ids in new_achievements of a run, does not depend on the
\* order in which the catalogue is iterated: whatever the order, the START,
\* TRAJECTORY and SUMMARY sweeps add exactly the ids ExpectedIds names
C39_AwardedSetIgnoresOrder ==
    [][/\ pc = "start_achievements" =>
             Elements(all_new_achievements')
                = ExpectedIds("Start", state, inp.achieved_list)
       /\ pc = "year_end" =>
             Elements(all_new_achievements')
                = Elements(all_new_achievements)
                  \cup ExpectedIds("Trajectory", state, current_achieved)
       /\ pc = "summary" =>
             /\ Elements(all_new_achievements')
                   = Elements(all_new_achievements)
                     \cup ExpectedIds("Summary", state, current_achieved)
             /\ Elements(result'.some.v.new_achievements)
                   = Elements(all_new_achievements')]_vars

\* a run has returned whose first sweep awarded 2 before 1
C39_Witness ==
    /\ pc = "done" /\ cfg = CfgOrder
    /\ result.some.v.new_achievements = <<2, 1>>

\* a run has returned whose first sweep awarded 1 before 2
C39_WitnessOtherOrder ==
    /\ pc = "done" /\ cfg = CfgOrder
    /\ result.some.v.new_achievements = <<1, 2>>

(***************************************************************************)
(* The frame of the parse cache.                                           *)
(***************************************************************************)
\* the call thread t is making in this step (the one it enters, when idle)
CallOf(t) == IF thr[t].pc = "idle" THEN thr'[t] ELSE thr[t]

\* a call of get_or_parse or check_condition that hit the cache, whose
\* condition does not parse, or whose condition is the empty string
LeavesCacheAlone(call) ==
    /\ call.op \in {"get_or_parse", "check_condition"}
    /\ \/ call.hit
       \/ call.condition = Empty
       \/ ~parse(call.condition).ok

\* C40: the parse cache gains an entry only when a string that is absent
\* from it parses successfully: a get_or_parse or check_condition call that
\* fails to parse, that hits the cache, or that is given the empty
\* condition string (which evaluates to true) leaves the cache unchanged
C40_CacheGainsOnlyParsedMisses ==
    [][/\ DOMAIN cache' \ DOMAIN cache # {} =>
             \E t \in Threads :
                 /\ thr[t].pc = "insert" /\ thr'[t].pc = "write_unlock"
                 /\ ~thr[t].hit
                 /\ thr[t].condition \notin DOMAIN cache
                 /\ DOMAIN cache' = DOMAIN cache \cup {thr[t].condition}
                 /\ parse(thr[t].condition) = Ok(cache'[thr[t].condition])
                 /\ \A k \in DOMAIN cache : cache'[k] = cache[k]
       /\ \A t \in Threads :
             (thr'[t] # thr[t] /\ LeavesCacheAlone(CallOf(t))) =>
                 /\ cache' = cache
                 /\ (thr[t].pc = "idle" /\ thr'[t].op = "check_condition"
                       /\ thr'[t].condition = Empty) =>
                       (thr'[t].pc = "done" /\ thr'[t].ret = Some(Ok(TRUE)))]_vars

\* one thread has returned from a miss that parsed and is the cache's one
\* entry; the other has returned the error of a condition that does not
\* parse
C40_Witness ==
    \E t \in Threads, u \in Threads :
        /\ thr[t].pc = "done" /\ thr[t].op \in {"get_or_parse", "check_condition"}
        /\ thr[t].condition # Empty /\ ~thr[t].hit
        /\ DOMAIN cache = {thr[t].condition}
        /\ thr[u].pc = "done" /\ thr[u].ret = Some(Err)

\* a call has returned from a hit, and a check_condition of the empty
\* string has returned true, with the cache holding one entry
C40_WitnessHit ==
    \E t \in Threads, u \in Threads :
        /\ thr[t].pc = "done" /\ thr[t].hit
        /\ Cardinality(DOMAIN cache) = 1
        /\ thr[u].pc = "done" /\ thr[u].op = "check_condition"
        /\ thr[u].condition = Empty /\ thr[u].ret = Some(Ok(TRUE))

====
